---- MODULE Spec2Model ----
(***************************************************************************)
(* TETRA downlink receiver: burst synchronizer (TetraDecoder), TDMA time,  *)
(* lower/upper MAC dissection (Mac) and MAC defragmenter (MacDefrag).      *)
(*                                                                         *)
(* State variables                                                         *)
(*   decoder  the TetraDecoder fields m_frame, m_bIsSynchronized and       *)
(*            m_syncBitCounter                                             *)
(*   mac      the Mac fields m_tetraTime, m_macAddress, m_macState,        *)
(*            m_usageMarkerEncryptionMode, m_secondSlotStolenFlag and the  *)
(*            MacDefrag object m_macDefrag                                 *)
(*   feed     the environment: what the input source delivers next         *)
(*   obs      observations of the last operation (return values, calls     *)
(*            made to the upper layer, counters of calls); written by the  *)
(*            actions, never read by the modelled code                     *)
(***************************************************************************)
EXTENDS Integers, Sequences, FiniteSets, TLC

VARIABLES decoder, mac, feed, obs

vars == <<decoder, mac, feed, obs>>

(***************************************************************************)
(* Bit-vector (Pdu) primitives. Positions are 0-based as in the source;    *)
(* a Pdu is a sequence of bits.                                            *)
(***************************************************************************)
Bit == {0, 1}

PduSize(pdu) == Len(pdu)

\* A read of n bits at pos lies inside the Pdu. A read outside it is the
\* OutOfRange failure; the operators below are total and the dissectors
\* report such a read in their `oor` result.
InRange(pdu, pos, n) == pos >= 0 /\ pos + n <= Len(pdu)

\* Pdu::at(i)
PduAt(pdu, i) == IF i >= 0 /\ i < Len(pdu) THEN pdu[i + 1] ELSE 0

RECURSIVE GetValueRec(_, _, _, _)
GetValueRec(pdu, pos, n, acc) ==
    IF n = 0 THEN acc
    ELSE GetValueRec(pdu, pos + 1, n - 1, 2 * acc + PduAt(pdu, pos))

\* Pdu::getValue(pos, n): the n bits from pos, MSB first
GetValue(pdu, pos, n) == GetValueRec(pdu, pos, n, 0)

Min(a, b) == IF a < b THEN a ELSE b

\* Pdu(pdu, offset): the sub-PDU from offset to the end
PduFrom(pdu, offset) == SubSeq(pdu, Min(offset, Len(pdu)) + 1, Len(pdu))

\* Pdu(pdu, offset, len): len bits from offset
PduFromLen(pdu, offset, len) ==
    SubSeq(pdu, Min(offset, Len(pdu)) + 1, Min(offset + len, Len(pdu)))

\* Pdu::resize(n) to a shorter size
PduResize(pdu, n) == SubSeq(pdu, 1, n)

\* Pdu::append
PduAppend(a, b) == a \o b

(***************************************************************************)
(* Input construction (not program code): MSB-first encoding of a value,   *)
(* runs of one bit, concatenation of a list of bit strings.                *)
(***************************************************************************)
RECURSIVE ToBits(_, _)
ToBits(v, n) == IF n = 0 THEN <<>> ELSE Append(ToBits(v \div 2, n - 1), v % 2)

Rep(b, n) == [i \in 1..n |-> b]

RECURSIVE Flatten(_)
Flatten(ss) == IF ss = <<>> THEN <<>> ELSE Head(ss) \o Flatten(Tail(ss))

(***************************************************************************)
(* TDMA time (TetraTime) and Mac::incrementTn                              *)
(***************************************************************************)
TetraTimeInit == [tn |-> 1, fn |-> 1, mn |-> 1]

\* incrementTn with the time slot wrapping one slot early
IncrementTnEarlyWrap(t) ==
    LET t1 == [t EXCEPT !.tn = t.tn + 1]
        t2 == IF t1.tn >= 4 THEN [t1 EXCEPT !.fn = t1.fn + 1, !.tn = 1] ELSE t1
        t3 == IF t2.fn > 18 THEN [t2 EXCEPT !.mn = t2.mn + 1, !.fn = 1] ELSE t2
    IN  IF t3.mn > 60 THEN [t3 EXCEPT !.mn = 1] ELSE t3

\* Mac::incrementTn: the three wrap-ups, in source order
IncrementTn(t) ==
    LET t1 == [t EXCEPT !.tn = t.tn + 1]
        t2 == IF t1.tn > 4 THEN [t1 EXCEPT !.fn = t1.fn + 1, !.tn = 1] ELSE t1
        t3 == IF t2.fn > 18 THEN [t2 EXCEPT !.mn = t2.mn + 1, !.fn = 1] ELSE t2
    IN  IF t3.mn > 60 THEN [t3 EXCEPT !.mn = 1] ELSE t3

(***************************************************************************)
(* MacDefrag. The object is the record                                     *)
(*   [m_sdu, b_stopped, m_fragmentsCount, macAddress, startTime]           *)
(* and each method is an operator from the object (and arguments) to the   *)
(* object after the call.                                                  *)
(***************************************************************************)
\* m_fragmentsCount is a uint8_t
FragCountMod == 256

\* MacDefrag::stop
DefragStop(d) ==
    [d EXCEPT !.b_stopped = TRUE, !.m_fragmentsCount = 0, !.m_sdu = <<>>]

\* start() that forgets to clear the buffer
DefragStartNoClear(d, address, timeSlot) ==
    [d EXCEPT !.macAddress = address, !.startTime = timeSlot,
              !.m_fragmentsCount = 0, !.b_stopped = FALSE]

\* MacDefrag::start
DefragStart(d, address, timeSlot) ==
    [d EXCEPT !.macAddress = address, !.startTime = timeSlot,
              !.m_fragmentsCount = 0, !.m_sdu = <<>>, !.b_stopped = FALSE]

\* append() that rejects a foreign SSI without stopping
DefragAppendNoStop(d, sdu, address) ==
    IF d.b_stopped THEN d
    ELSE IF address.ssi # d.macAddress.ssi THEN d
    ELSE [d EXCEPT !.m_sdu = PduAppend(d.m_sdu, sdu),
                   !.m_fragmentsCount = (d.m_fragmentsCount + 1) % FragCountMod]

\* MacDefrag::append
DefragAppend(d, sdu, address) ==
    IF d.b_stopped THEN d
    ELSE IF address.ssi # d.macAddress.ssi THEN DefragStop(d)
    ELSE [d EXCEPT !.m_sdu = PduAppend(d.m_sdu, sdu),
                   !.m_fragmentsCount = (d.m_fragmentsCount + 1) % FragCountMod]

\* MacDefrag::getSdu: the returned Pdu and, when `written`, the two values
\* stored through the pointers (they are left untouched when stopped)
DefragGetSdu(d) ==
    IF d.b_stopped
    THEN [sdu |-> <<>>, written |-> FALSE, encryptionMode |-> 0, usageMarker |-> 0]
    ELSE [sdu |-> d.m_sdu, written |-> TRUE,
          encryptionMode |-> d.macAddress.encryptionMode,
          usageMarker |-> d.macAddress.usageMarker]

(***************************************************************************)
(* Upper MAC dissectors. `m` is the Mac object (a record of its fields);   *)
(* a dissector returns the Mac object after the call, the TM-SDU it        *)
(* returns, the values it stores through its pointer arguments, and `oor`: *)
(* some read or slice it made lies outside the PDU.                        *)
(***************************************************************************)
\* decodeLength taking 111011 and 111100 for lengths
DecodeLengthNoReserved(val) ==
    IF val = 0 THEN 0
    ELSE IF val <= 18 THEN val * 1
    ELSE IF val <= 60 THEN 18 * 1 + (val - 18) * 1
    ELSE IF val = 61 THEN 0
    ELSE val

\* Mac::decodeLength (Y2 = Z2 = 1)
DecodeLength(val) ==
    IF val = 0 \/ val = 59 \/ val = 60 THEN 0
    ELSE IF val <= 18 THEN val * 1
    ELSE IF val <= 58 THEN 18 * 1 + (val - 18) * 1
    ELSE IF val = 61 THEN 0
    ELSE IF val = 62 THEN val
    ELSE IF val = 63 THEN val
    ELSE 0

\* the index of the last 1 of p[lo..hi], 0 when there is none
RECURSIVE LastOne(_, _, _)
LastOne(p, lo, hi) ==
    IF lo > hi THEN 0
    ELSE IF lo = hi THEN (IF p[lo] = 1 THEN lo ELSE 0)
    ELSE LET mid == (lo + hi) \div 2
             r == LastOne(p, mid + 1, hi)
         IN  IF r > 0 THEN r ELSE LastOne(p, lo, mid)

\* the while loop of removeFillBits: resize by one as long as the last bit
\* is 0, which leaves the bits up to the last 1
DropTrailingZeros(p) == PduResize(p, LastOne(p, 1, Len(p)))

\* removeFillBits removing the 0s only
RemoveFillBitsKeepOne(m, pdu) ==
    IF ~m.m_bRemoveFillBits THEN pdu
    ELSE IF PduAt(pdu, Len(pdu) - 1) = 1 THEN pdu
    ELSE DropTrailingZeros(pdu)

\* Mac::removeFillBits
RemoveFillBits(m, pdu) ==
    IF ~m.m_bRemoveFillBits THEN pdu
    ELSE IF PduAt(pdu, Len(pdu) - 1) = 1 THEN PduResize(pdu, Len(pdu) - 1)
    ELSE LET z == DropTrailingZeros(pdu)
         IN  IF Len(z) = 0 THEN z ELSE PduResize(z, Len(z) - 1)

\* removeFillBits runs off the front of a Pdu that holds no 1
RemoveFillBitsOor(m, pdu) ==
    m.m_bRemoveFillBits /\ (Len(pdu) = 0 \/ DropTrailingZeros(pdu) = <<>>)

\* AACH that decodes the header also in frame 18
PduProcessAachNoFrame18(m, pdu) ==
    LET header == GetValue(pdu, 0, 2)
        field1 == GetValue(pdu, 2, 6)
        usage  == IF header = 0 THEN "COMMON_CONTROL"
                  ELSE IF field1 = 0 THEN "UNALLOCATED"
                  ELSE IF field1 = 1 THEN "ASSIGNED_CONTROL"
                  ELSE IF field1 = 2 THEN "COMMON_CONTROL"
                  ELSE IF field1 = 3 THEN "RESERVED"
                  ELSE "TRAFFIC"
        marker == IF usage = "TRAFFIC" THEN field1 ELSE 0
    IN  [m   |-> [m EXCEPT !.m_macState.downlinkUsage = usage,
                           !.m_macState.downlinkUsageMarker = marker],
         oor |-> ~InRange(pdu, 0, 8)]

\* Mac::pduProcessAach
PduProcessAach(m, pdu) ==
    LET header == GetValue(pdu, 0, 2)
        field1 == GetValue(pdu, 2, 6)
        usage  == IF m.m_tetraTime.fn = 18 THEN "COMMON_CONTROL"
                  ELSE IF header = 0 THEN "COMMON_CONTROL"
                  ELSE IF field1 = 0 THEN "UNALLOCATED"
                  ELSE IF field1 = 1 THEN "ASSIGNED_CONTROL"
                  ELSE IF field1 = 2 THEN "COMMON_CONTROL"
                  ELSE IF field1 = 3 THEN "RESERVED"
                  ELSE "TRAFFIC"
        marker == IF usage = "TRAFFIC" THEN field1 ELSE 0
    IN  [m   |-> [m EXCEPT !.m_macState.downlinkUsage = usage,
                           !.m_macState.downlinkUsageMarker = marker],
         oor |-> ~InRange(pdu, 0, 8)]

\* pduProcessSync without updateScramblingCode
PduProcessSyncKeepCode(m, pdu) ==
    IF Len(pdu) >= 60
    THEN [m   |-> [m EXCEPT !.m_tetraTime = [tn |-> GetValue(pdu, 10, 2) + 1,
                                             fn |-> GetValue(pdu, 12, 5),
                                             mn |-> GetValue(pdu, 17, 6)]],
          sdu |-> PduFromLen(pdu, 31, 29),
          oor |-> ~InRange(pdu, 31, 29)]
    ELSE [m |-> m, sdu |-> <<>>, oor |-> FALSE]

\* Mac::pduProcessSync
PduProcessSync(m, pdu) ==
    IF Len(pdu) >= 60
    THEN LET colorCode == GetValue(pdu, 4, 6)
             tn  == GetValue(pdu, 10, 2) + 1
             fn  == GetValue(pdu, 12, 5)
             mn  == GetValue(pdu, 17, 6)
             pos == 23 + 2 + 3 + 1 + 1 + 1
             mcc == GetValue(pdu, 31, 10)
             mnc == GetValue(pdu, 41, 14)
         IN  [m   |-> [m EXCEPT !.m_tetraTime = [tn |-> tn, fn |-> fn, mn |-> mn],
                                !.m_tetraCell.mcc = mcc,
                                !.m_tetraCell.mnc = mnc,
                                !.m_tetraCell.colorCode = colorCode],
              sdu |-> PduFromLen(pdu, pos, 29),
              oor |-> ~InRange(pdu, pos, 29)]
    ELSE [m |-> m, sdu |-> <<>>, oor |-> FALSE]

\* the address element of MAC-RESOURCE: the switch on m_macAddress.addressType
AddressFields(a, um, pdu, pos) ==
    LET t == a.addressType
    IN  IF t = 1 THEN [a |-> [a EXCEPT !.ssi = GetValue(pdu, pos, 24)],
                       um |-> um, pos |-> pos + 24]
        ELSE IF t = 3 THEN [a |-> [a EXCEPT !.ussi = GetValue(pdu, pos, 24)],
                            um |-> um, pos |-> pos + 24]
        ELSE IF t = 4 THEN [a |-> [a EXCEPT !.smi = GetValue(pdu, pos, 24)],
                            um |-> um, pos |-> pos + 24]
        ELSE IF t = 2 THEN [a |-> [a EXCEPT !.eventLabel = GetValue(pdu, pos, 10)],
                            um |-> um, pos |-> pos + 10]
        ELSE IF t = 5 THEN [a |-> [a EXCEPT !.ssi = GetValue(pdu, pos, 24),
                                            !.eventLabel = GetValue(pdu, pos + 24, 10)],
                            um |-> um, pos |-> pos + 34]
        ELSE IF t = 6 THEN
             LET marker == GetValue(pdu, pos + 24, 6)
             IN  [a |-> [a EXCEPT !.ssi = GetValue(pdu, pos, 24),
                                  !.usageMarker = marker],
                  um |-> [um EXCEPT ![marker] = a.encryptionMode],
                  pos |-> pos + 30]
        ELSE IF t = 7 THEN [a |-> [a EXCEPT !.smi = GetValue(pdu, pos, 24),
                                            !.eventLabel = GetValue(pdu, pos + 24, 10)],
                            um |-> um, pos |-> pos + 34]
        ELSE [a |-> a, um |-> um, pos |-> pos]

\* 21.5.2 channel allocation element, as both MAC-RESOURCE and MAC-END skip
\* it: the position after it and the ends of the reads made
ChannelAllocation(pdu, p, fn) ==
    LET q1   == p + 2 + 4 + 2 + 1 + 1 + 12
        ext  == GetValue(pdu, q1, 1)
        q2   == q1 + 1 + (IF ext = 1 THEN 4 + 2 + 3 + 1 ELSE 0)
        mon  == GetValue(pdu, q2, 2)
        q3   == q2 + 2 + (IF mon = 0 /\ fn = 18 THEN 2 ELSE 0)
    IN  [pos |-> q3, ends |-> {q1 + 1, q2 + 2}]

\* the augmented channel allocation element of MAC-RESOURCE (ul_dl == 0)
AugmentedChannelAllocation(pdu, p) ==
    LET q4  == p + 2 + 3 + 3 + 3 + 3 + 3 + 4 + 5
        nap == GetValue(pdu, q4, 2)
        q5  == q4 + 2 + (IF nap = 1 THEN 11 ELSE 0) + 4
        f1  == GetValue(pdu, q5, 1)
        q6  == q5 + 1 + (IF f1 = 1 THEN 16 ELSE 0)
        f2  == GetValue(pdu, q6, 1)
        q7  == q6 + 1 + (IF f2 = 1 THEN 16 ELSE 0) + 1
    IN  [pos |-> q7, ends |-> {q4 + 2, q5 + 1, q6 + 1}]

\* the end of pduProcessResource with the PDU size left in octets
ResourceSduOctets(m1, pdu, pos, length, hdrOor) ==
    LET frag == (length = 63)
        pduSizeInMac == IF frag THEN 0 ELSE DecodeLength(length)
        sduLength    == DecodeLength(length) * 8 - pos
    IN  IF sduLength > 0 /\ frag
        THEN [m |-> [m1 EXCEPT !.m_macDefrag =
                        DefragAppend(DefragStart(m1.m_macDefrag, m1.m_macAddress,
                                                 m1.m_tetraTime),
                                     PduFrom(pdu, pos), m1.m_macAddress)],
              sdu |-> <<>>,
              fragmentedPacketFlag |-> frag, pduSizeInMac |-> pduSizeInMac,
              oor |-> hdrOor \/ pos > Len(pdu)]
        ELSE IF sduLength > 0
        THEN [m |-> m1, sdu |-> PduFromLen(pdu, pos, sduLength),
              fragmentedPacketFlag |-> frag, pduSizeInMac |-> pduSizeInMac,
              oor |-> hdrOor \/ ~InRange(pdu, pos, sduLength)]
        ELSE [m |-> m1, sdu |-> <<>>,
              fragmentedPacketFlag |-> frag, pduSizeInMac |-> pduSizeInMac,
              oor |-> hdrOor]

\* Mac::pduProcessResource from the TM-SDU on: the defragmenter is started
\* for a fragmented TM-SDU, the TM-SDU is returned otherwise. m1 is the Mac
\* object after the header, pos the position of the TM-SDU
ResourceSdu(m1, pdu, pos, length, hdrOor) ==
    LET frag == (length = 63)
        pduSizeInMac == IF frag THEN 0 ELSE DecodeLength(length) * 8
        sduLength    == DecodeLength(length) * 8 - pos
    IN  IF sduLength > 0 /\ frag
        THEN [m |-> [m1 EXCEPT !.m_macDefrag =
                        DefragAppend(DefragStart(m1.m_macDefrag, m1.m_macAddress,
                                                 m1.m_tetraTime),
                                     PduFrom(pdu, pos), m1.m_macAddress)],
              sdu |-> <<>>,
              fragmentedPacketFlag |-> frag, pduSizeInMac |-> pduSizeInMac,
              oor |-> hdrOor \/ pos > Len(pdu)]
        ELSE IF sduLength > 0
        THEN [m |-> m1, sdu |-> PduFromLen(pdu, pos, sduLength),
              fragmentedPacketFlag |-> frag, pduSizeInMac |-> pduSizeInMac,
              oor |-> hdrOor \/ ~InRange(pdu, pos, sduLength)]
        ELSE [m |-> m1, sdu |-> <<>>,
              fragmentedPacketFlag |-> frag, pduSizeInMac |-> pduSizeInMac,
              oor |-> hdrOor]

\* the channel allocation element of MAC-RESOURCE at p3, ca being its common
\* part: the position after it and the ends of the reads made
ResourceChannelAllocation(pdu, p3, ca) ==
    IF GetValue(pdu, p3 + 2 + 4, 2) = 0
    THEN [pos  |-> AugmentedChannelAllocation(pdu, ca.pos).pos,
          ends |-> {p3 + 8} \cup ca.ends \cup AugmentedChannelAllocation(pdu, ca.pos).ends]
    ELSE [pos |-> ca.pos, ends |-> {p3 + 8} \cup ca.ends]

\* the power control, slot granting and channel allocation elements that
\* follow the address, which ends at p0
ResourceElements(pdu, p0, fn) ==
    LET p1 == p0 + (IF GetValue(pdu, p0, 1) = 1 THEN 1 + 4 ELSE 1)
        p2 == p1 + (IF GetValue(pdu, p1, 1) = 1 THEN 1 + 8 ELSE 1)
        hdr == [pos |-> p2 + 1, ends |-> {p0 + 1, p1 + 1, p2 + 1}]
    IN  IF GetValue(pdu, p2, 1) = 0 THEN hdr
        ELSE [pos  |-> ResourceChannelAllocation(pdu, p2 + 1,
                           ChannelAllocation(pdu, p2 + 1, fn)).pos,
              ends |-> hdr.ends
                       \cup ResourceChannelAllocation(pdu, p2 + 1,
                                ChannelAllocation(pdu, p2 + 1, fn)).ends]

\* Mac::pduProcessResource after the address: af is what the address switch
\* gives, el the elements that follow it
ResourceAfterAddress(m, pdu, af, el, length, oor) ==
    ResourceSdu([m EXCEPT !.m_macAddress = af.a,
                          !.m_usageMarkerEncryptionMode = af.um,
                          !.m_secondSlotStolenFlag =
                              IF length = 62 THEN 1
                              ELSE IF length = 63 THEN 0 ELSE m.m_secondSlotStolenFlag],
                pdu, el.pos, length,
                oor \/ (\E e \in {16, af.pos} \cup el.ends : e > Len(pdu)))

\* Mac::pduProcessResource on the PDU without its fill bits
ResourceFields(m, pdu, af, oor) ==
    ResourceAfterAddress(m, pdu, af, ResourceElements(pdu, af.pos, m.m_tetraTime.fn),
                         GetValue(pdu, 7, 6), oor)

\* Mac::pduProcessResource from the fill bits to the address
ResourceHeader(m, pdu, oor) ==
    ResourceFields(m, pdu,
                   AddressFields([m.m_macAddress EXCEPT
                                      !.encryptionMode = GetValue(pdu, 4, 2),
                                      !.addressType = GetValue(pdu, 13, 3)],
                                 m.m_usageMarkerEncryptionMode, pdu, 16),
                   oor)

\* a Null PDU reported with its size, 16 bits, as a whole MAC-RESOURCE is
ResourceNullSized(m, macPdu) ==
    [m |-> m, sdu |-> <<>>, fragmentedPacketFlag |-> FALSE,
     pduSizeInMac |-> 16, oor |-> ~InRange(macPdu, 13, 3)]

\* a Null PDU found out after the encryption mode and the length were read
ResourceNullAfterHeader(m, macPdu) ==
    [m |-> [m EXCEPT !.m_macAddress.encryptionMode = GetValue(macPdu, 4, 2),
                     !.m_secondSlotStolenFlag =
                         IF GetValue(macPdu, 7, 6) = 62 THEN 1
                         ELSE IF GetValue(macPdu, 7, 6) = 63 THEN 0 ELSE @],
     sdu |-> <<>>, fragmentedPacketFlag |-> GetValue(macPdu, 7, 6) = 63,
     pduSizeInMac |-> -1, oor |-> ~InRange(macPdu, 13, 3)]

\* Mac::pduProcessResource on a Null PDU
ResourceNull(m, macPdu) ==
    [m |-> m, sdu |-> <<>>, fragmentedPacketFlag |-> FALSE,
     pduSizeInMac |-> -1, oor |-> ~InRange(macPdu, 13, 3)]

\* Mac::pduProcessResource
PduProcessResource(m, macPdu) ==
    IF GetValue(macPdu, 13, 3) = 0
    THEN ResourceNull(m, macPdu)
    ELSE ResourceHeader(m,
                        IF GetValue(macPdu, 2, 1) = 1 THEN RemoveFillBits(m, macPdu)
                        ELSE macPdu,
                        ~InRange(macPdu, 13, 3)
                        \/ (GetValue(macPdu, 2, 1) = 1 /\ RemoveFillBitsOor(m, macPdu)))

\* MAC-FRAG whose fragment starts one bit early, at the fill bit flag
PduProcessMacFragFromFlag(m, macPdu) ==
    LET fillBitFlag == GetValue(macPdu, 3, 1)
        pdu == IF fillBitFlag = 1 THEN RemoveFillBits(m, macPdu) ELSE macPdu
    IN  [m   |-> [m EXCEPT !.m_macDefrag =
                      DefragAppend(m.m_macDefrag, PduFrom(pdu, 3), m.m_macAddress)],
         oor |-> ~InRange(macPdu, 3, 1) \/ 4 > Len(pdu)
                 \/ (fillBitFlag = 1 /\ RemoveFillBitsOor(m, macPdu))]

\* Mac::pduProcessMacFrag
PduProcessMacFrag(m, macPdu) ==
    LET fillBitFlag == GetValue(macPdu, 3, 1)
        pdu == IF fillBitFlag = 1 THEN RemoveFillBits(m, macPdu) ELSE macPdu
    IN  [m   |-> [m EXCEPT !.m_macDefrag =
                      DefragAppend(m.m_macDefrag, PduFrom(pdu, 4), m.m_macAddress)],
         oor |-> ~InRange(macPdu, 3, 1) \/ 4 > Len(pdu)
                 \/ (fillBitFlag = 1 /\ RemoveFillBitsOor(m, macPdu))]

\* the end of pduProcessMacEnd without the write to m_macAddress
MacEndResultKeepMode(m, d1, got, oor) ==
    [m   |-> [(IF Len(got.sdu) > 0
               THEN [m EXCEPT !.m_usageMarkerEncryptionMode[got.usageMarker] =
                                   got.encryptionMode]
               ELSE m) EXCEPT !.m_macDefrag = DefragStop(d1)],
     sdu |-> got.sdu,
     oor |-> oor]

\* the end of pduProcessMacEnd without the stop()
MacEndResultNoStop(m, d1, got, oor) ==
    [m   |-> [(IF Len(got.sdu) > 0
               THEN [m EXCEPT !.m_usageMarkerEncryptionMode[got.usageMarker] =
                                   got.encryptionMode,
                              !.m_macAddress.encryptionMode = got.encryptionMode]
               ELSE m) EXCEPT !.m_macDefrag = d1],
     sdu |-> got.sdu,
     oor |-> oor]

\* Mac::pduProcessMacEnd from getSdu on: d1 is the defragmenter after the
\* append, got what getSdu returns
MacEndResult(m, d1, got, oor) ==
    [m   |-> [(IF Len(got.sdu) > 0
               THEN [m EXCEPT !.m_usageMarkerEncryptionMode[got.usageMarker] =
                                   got.encryptionMode,
                              !.m_macAddress.encryptionMode = got.encryptionMode]
               ELSE m) EXCEPT !.m_macDefrag = DefragStop(d1)],
     sdu |-> got.sdu,
     oor |-> oor]

\* Mac::pduProcessMacEnd: the append of the last fragment, at tail.pos
MacEndAppend(m, d1, oor) == MacEndResult(m, d1, DefragGetSdu(d1), oor)

\* pduProcessMacEnd without the test of the length
MacEndFieldsAnyLength(m, pdu, fillOor) ==
    LET p1   == 12 + (IF GetValue(pdu, 11, 1) = 1 THEN 8 ELSE 0)
        tail == IF GetValue(pdu, p1, 1) = 1
                THEN [pos  |-> ChannelAllocation(pdu, p1 + 1, m.m_tetraTime.fn).pos,
                      ends |-> {12, p1 + 1}
                               \cup ChannelAllocation(pdu, p1 + 1, m.m_tetraTime.fn).ends]
                ELSE [pos |-> p1 + 1, ends |-> {12, p1 + 1}]
    IN  MacEndAppend(m,
                     DefragAppend(m.m_macDefrag, PduFrom(pdu, tail.pos), m.m_macAddress),
                     fillOor \/ (\E e \in tail.ends : e > Len(pdu))
                     \/ tail.pos > Len(pdu))

\* Mac::pduProcessMacEnd on the PDU without its fill bits
MacEndFields(m, pdu, fillOor) ==
    LET val  == GetValue(pdu, 5, 6)
        p1   == 12 + (IF GetValue(pdu, 11, 1) = 1 THEN 8 ELSE 0)
        tail == IF GetValue(pdu, p1, 1) = 1
                THEN [pos  |-> ChannelAllocation(pdu, p1 + 1, m.m_tetraTime.fn).pos,
                      ends |-> {12, p1 + 1}
                               \cup ChannelAllocation(pdu, p1 + 1, m.m_tetraTime.fn).ends]
                ELSE [pos |-> p1 + 1, ends |-> {12, p1 + 1}]
    IN  IF val < 2 \/ val > 34
        THEN [m |-> m, sdu |-> <<>>, oor |-> fillOor \/ ~InRange(pdu, 5, 6)]
        ELSE MacEndAppend(m,
                          DefragAppend(m.m_macDefrag, PduFrom(pdu, tail.pos),
                                       m.m_macAddress),
                          fillOor \/ (\E e \in tail.ends : e > Len(pdu))
                          \/ tail.pos > Len(pdu))

\* Mac::pduProcessMacEnd
PduProcessMacEnd(m, macPdu) ==
    MacEndFields(m,
                 IF GetValue(macPdu, 3, 1) = 1 THEN RemoveFillBits(m, macPdu) ELSE macPdu,
                 ~InRange(macPdu, 3, 1)
                 \/ (GetValue(macPdu, 3, 1) = 1 /\ RemoveFillBitsOor(m, macPdu)))

\* Mac::pduProcessSysinfo
PduProcessSysinfo(m, pdu) ==
    IF Len(pdu) >= 82
    THEN LET main_carrier   == GetValue(pdu, 4, 12)
             band_frequency == GetValue(pdu, 16, 4)
             offset == GetValue(pdu, 20, 2)
             pos    == 22 + 3 + 1 + 2 + 3 + 4 + 4 + 4 + 1 + 16 + 2 + 20
             duplex == <<0, 6250, -6250, 12500>>
         IN  [m   |-> [m EXCEPT !.m_tetraCell.downlinkFrequency =
                            band_frequency * 100000000 + main_carrier * 25000
                            + duplex[offset + 1]],
              sdu |-> PduFromLen(pdu, pos, 42),
              pduSizeInMac |-> pos + 42,
              oor |-> ~InRange(pdu, pos, 42)]
    ELSE [m |-> m, sdu |-> <<>>, pduSizeInMac |-> 0, oor |-> FALSE]

\* pduProcessDBlock without the test of the size
PduProcessDBlockAnySize(m, macPdu) ==
    LET fillBitFlag == GetValue(macPdu, 3, 1)
        pdu  == IF fillBitFlag = 1 THEN RemoveFillBits(m, macPdu) ELSE macPdu
        flag == GetValue(pdu, 17, 1)
        pos  == 18 + (IF flag = 1 THEN 8 ELSE 0)
    IN  [m   |-> [m EXCEPT !.m_macAddress.encryptionMode = GetValue(pdu, 4, 2),
                           !.m_macAddress.eventLabel = GetValue(pdu, 6, 10)],
         sdu |-> PduFrom(pdu, pos),
         pduSizeInMac |-> 268,
         oor |-> 18 > Len(pdu) \/ pos > Len(pdu)]

\* Mac::pduProcessDBlock
PduProcessDBlock(m, macPdu) ==
    IF Len(macPdu) >= 268
    THEN LET fillBitFlag == GetValue(macPdu, 3, 1)
             pdu  == IF fillBitFlag = 1 THEN RemoveFillBits(m, macPdu) ELSE macPdu
             flag == GetValue(pdu, 17, 1)
             pos  == 18 + (IF flag = 1 THEN 8 ELSE 0)
         IN  [m   |-> [m EXCEPT !.m_macAddress.encryptionMode = GetValue(pdu, 4, 2),
                                !.m_macAddress.eventLabel = GetValue(pdu, 6, 10)],
              sdu |-> PduFrom(pdu, pos),
              pduSizeInMac |-> 268,
              oor |-> 18 > Len(pdu) \/ pos > Len(pdu)]
    ELSE [m |-> m, sdu |-> <<>>, pduSizeInMac |-> 0, oor |-> FALSE]

\* Mac::pduProcessAccessDefine
PduProcessAccessDefine(m, pdu) ==
    LET p0   == 2 + 2 + 1 + 2 + 4 + 4 + 4 + 1 + 4 + 3
        flag == GetValue(pdu, p0, 2)
        pos  == p0 + 1 + (IF flag = 1 THEN 16 ELSE IF flag = 2 THEN 24 ELSE 0) + 3
    IN  [m |-> m, pduSizeInMac |-> pos, oor |-> ~InRange(pdu, p0, 2)]

(***************************************************************************)
(* Mac::serviceUpperMac. The do-while loop is UpperMacLoop over the record *)
(* L of the function's locals:                                             *)
(*   m, pdu, tmSdu, pduSizeInMac, fragmentedPacketFlag, pduCount           *)
(* plus what the call did: out (the TM-SDUs handed to m_llc->service and   *)
(* the blocks handed to m_uPlane->service, in order), txt (the name of     *)
(* each PDU dissected, in order) and oor.                                  *)
(***************************************************************************)
MIN_MAC_RESOURCE_SIZE == 40

\* the loop protection of the do-while
MaxPduCount == 32

SignallingChannels == {"STCH", "BNCH", "SCH_F", "SCH_HD"}

\* one pass through the switch: the locals after it
DissectPdu(L, chan) ==
    LET keep == [m |-> L.m, tmSdu |-> L.tmSdu, pduSizeInMac |-> L.pduSizeInMac,
                 fragmentedPacketFlag |-> L.fragmentedPacketFlag,
                 bSendTmSduToLlc |-> TRUE, dissociatePduFlag |-> FALSE,
                 txt |-> "rev", oor |-> FALSE, uplane |-> FALSE]
        pduType == GetValue(L.pdu, 0, 2)
        Aach(r) == [keep EXCEPT !.m = r.m, !.txt = "aach", !.oor = r.oor]
        Bsch(r) == [keep EXCEPT !.m = r.m, !.tmSdu = r.sdu, !.txt = "bsch", !.oor = r.oor]
        Resource(r) ==
            [keep EXCEPT !.m = r.m, !.tmSdu = r.sdu,
                         !.pduSizeInMac = r.pduSizeInMac,
                         !.fragmentedPacketFlag = r.fragmentedPacketFlag,
                         !.bSendTmSduToLlc = ~r.fragmentedPacketFlag,
                         !.dissociatePduFlag =
                             (~r.fragmentedPacketFlag /\ r.pduSizeInMac > 0),
                         !.txt = "MAC-RESOURCE",
                         !.oor = r.oor \/ ~InRange(L.pdu, 0, 2)]
        MacFrag(r) == [keep EXCEPT !.m = r.m, !.bSendTmSduToLlc = FALSE,
                                   !.txt = "MAC-FRAG", !.oor = r.oor]
        MacEnd(r) == [keep EXCEPT !.m = r.m, !.tmSdu = r.sdu,
                                  !.txt = "MAC-END", !.oor = r.oor]
        Sysinfo(r) == [keep EXCEPT !.m = r.m, !.tmSdu = r.sdu,
                                   !.pduSizeInMac = r.pduSizeInMac,
                                   !.txt = "SYSINFO",
                                   !.oor = r.oor \/ ~InRange(L.pdu, 2, 2)]
        AccessDefine(r) == [keep EXCEPT !.pduSizeInMac = r.pduSizeInMac,
                                        !.txt = "ACCESS-DEFINE", !.oor = r.oor]
        DBlock(r) == [keep EXCEPT !.m = r.m, !.tmSdu = r.sdu,
                                  !.pduSizeInMac = r.pduSizeInMac,
                                  !.txt = "MAC-D-BLCK",
                                  !.oor = r.oor \/ ~InRange(L.pdu, 2, 1)]
    IN  IF chan = "AACH" THEN Aach(PduProcessAach(L.m, L.pdu))
        ELSE IF chan = "BSCH" THEN Bsch(PduProcessSync(L.m, L.pdu))
        ELSE IF chan = "TCH_S" THEN [keep EXCEPT !.txt = "tch_s", !.uplane = TRUE]
        ELSE IF chan = "TCH" THEN [keep EXCEPT !.txt = "tch", !.uplane = TRUE]
        ELSE IF chan \notin SignallingChannels THEN keep
        ELSE IF pduType = 0 THEN Resource(PduProcessResource(L.m, L.pdu))
        ELSE IF pduType = 1 /\ GetValue(L.pdu, 2, 1) = 0
        THEN MacFrag(PduProcessMacFrag(L.m, L.pdu))
        ELSE IF pduType = 1 THEN MacEnd(PduProcessMacEnd(L.m, L.pdu))
        ELSE IF pduType = 2 /\ GetValue(L.pdu, 2, 2) = 0
        THEN Sysinfo(PduProcessSysinfo(L.m, L.pdu))
        ELSE IF pduType = 2 /\ GetValue(L.pdu, 2, 2) = 1
        THEN AccessDefine(PduProcessAccessDefine(L.m, L.pdu))
        ELSE IF pduType = 2
        THEN [keep EXCEPT !.txt = "RESERVED", !.oor = ~InRange(L.pdu, 2, 2)]
        ELSE IF chan # "STCH" /\ chan # "SCH_HD"
        THEN DBlock(PduProcessDBlock(L.m, L.pdu))
        ELSE [keep EXCEPT !.txt = "MAC-ERROR", !.oor = ~InRange(L.pdu, 2, 1)]

\* what one pass hands to the upper layers
Delivered(r, pdu, chan) ==
    IF r.uplane
    THEN <<[to |-> "UPLANE", channel |-> chan, sdu |-> pdu,
            time |-> r.m.m_tetraTime, address |-> r.m.m_macAddress]>>
    ELSE IF r.tmSdu # <<>> /\ r.bSendTmSduToLlc
    THEN <<[to |-> "LLC", channel |-> chan, sdu |-> r.tmSdu,
            time |-> r.m.m_tetraTime, address |-> r.m.m_macAddress]>>
    ELSE <<>>

\* a pass that leaves the block as it is and lets the loop make one pass more
PassNoProgress(L, r, chan) ==
    LET brk == Len(L.pdu) - r.pduSizeInMac < MIN_MAC_RESOURCE_SIZE
    IN  [m |-> r.m, pdu |-> L.pdu,
         tmSdu |-> r.tmSdu, pduSizeInMac |-> r.pduSizeInMac,
         fragmentedPacketFlag |-> r.fragmentedPacketFlag,
         pduCount |-> L.pduCount + 1,
         out |-> L.out \o Delivered(r, L.pdu, chan),
         txt |-> Append(L.txt, r.txt),
         passes |-> Append(L.passes,
                           [size |-> Len(L.pdu), pduSizeInMac |-> r.pduSizeInMac,
                            nOut |-> Len(Delivered(r, L.pdu, chan)), sdu |-> r.tmSdu]),
         oor |-> L.oor \/ r.oor,
         again |-> ~brk /\ r.bSendTmSduToLlc /\ r.dissociatePduFlag
                   /\ L.pduCount + 1 <= MaxPduCount]

\* a pass without the test of the remaining size
PassNoBreak(L, r, chan) ==
    [m |-> r.m,
     pdu |-> IF r.dissociatePduFlag THEN PduFrom(L.pdu, r.pduSizeInMac) ELSE L.pdu,
     tmSdu |-> r.tmSdu, pduSizeInMac |-> r.pduSizeInMac,
     fragmentedPacketFlag |-> r.fragmentedPacketFlag,
     pduCount |-> L.pduCount + 1,
     out |-> L.out \o Delivered(r, L.pdu, chan),
     txt |-> Append(L.txt, r.txt),
     passes |-> Append(L.passes,
                       [size |-> Len(L.pdu), pduSizeInMac |-> r.pduSizeInMac,
                        nOut |-> Len(Delivered(r, L.pdu, chan)), sdu |-> r.tmSdu]),
     oor |-> L.oor \/ r.oor,
     again |-> r.bSendTmSduToLlc /\ r.dissociatePduFlag /\ L.pduCount + 1 < MaxPduCount]

\* one pass of the do-while: r is what the switch gives on the locals L; the
\* locals after the pass, and `again`: the loop goes on (no break, and the
\* while condition holds)
Pass(L, r, chan) ==
    LET brk == Len(L.pdu) - r.pduSizeInMac < MIN_MAC_RESOURCE_SIZE
    IN  [m |-> r.m,
         pdu |-> IF ~brk /\ r.dissociatePduFlag
                 THEN PduFrom(L.pdu, r.pduSizeInMac) ELSE L.pdu,
         tmSdu |-> r.tmSdu, pduSizeInMac |-> r.pduSizeInMac,
         fragmentedPacketFlag |-> r.fragmentedPacketFlag,
         pduCount |-> L.pduCount + 1,
         out |-> L.out \o Delivered(r, L.pdu, chan),
         txt |-> Append(L.txt, r.txt),
         passes |-> Append(L.passes,
                           [size |-> Len(L.pdu), pduSizeInMac |-> r.pduSizeInMac,
                            nOut |-> Len(Delivered(r, L.pdu, chan)), sdu |-> r.tmSdu]),
         oor |-> L.oor \/ r.oor,
         again |-> ~brk /\ r.bSendTmSduToLlc /\ r.dissociatePduFlag
                   /\ L.pduCount + 1 < MaxPduCount]

RECURSIVE UpperMacLoop(_, _)
\* the while of the do-while
While(L, chan) == IF L.again THEN UpperMacLoop(L, chan) ELSE L

\* the do-while loop of serviceUpperMac
UpperMacLoop(L, chan) == While(Pass(L, DissectPdu(L, chan), chan), chan)

\* Mac::serviceUpperMac
ServiceUpperMac(m, data, chan) ==
    UpperMacLoop([m |-> [m EXCEPT !.m_macState.logicalChannel = chan],
                  pdu |-> data, tmSdu |-> <<>>, pduSizeInMac |-> 0,
                  fragmentedPacketFlag |-> FALSE, pduCount |-> 0,
                  out |-> <<>>, txt |-> <<>>, passes |-> <<>>, oor |-> FALSE,
                  again |-> TRUE], chan)

(***************************************************************************)
(* Mac::serviceLowerMac. The block codes (descramble, deinterleave,        *)
(* depuncture, Viterbi, Reed-Muller, CRC) are not part of the modelled     *)
(* code: what they return for the burst is the input `dec`,                *)
(*   [bsch, bbk, bkn1, bkn2, raw]                                          *)
(* with bbk the 14 decoded AACH bits, raw the descrambled 432 bits of an   *)
(* NDB, and the others [crc |-> the CRC check passed, bits |-> the decoded *)
(* block].  S is the pair [m, calls]: the Mac object and the               *)
(* serviceUpperMac calls made so far for this burst.                       *)
(***************************************************************************)
CallRecord(S, L, data, chan) ==
    [m |-> L.m,
     descr |-> S.descr,
     calls |-> Append(S.calls,
                 [channel |-> chan, data |-> data, pduCount |-> L.pduCount,
                  out |-> L.out, txt |-> L.txt, passes |-> L.passes, oor |-> L.oor,
                  fn |-> L.m.m_tetraTime.fn,
                  downlinkUsage |-> L.m.m_macState.downlinkUsage,
                  stolen |-> L.m.m_secondSlotStolenFlag,
                  m_macAddress |-> L.m.m_macAddress,
                  table |-> L.m.m_usageMarkerEncryptionMode,
                  defrag |-> L.m.m_macDefrag])]

\* a serviceUpperMac call
UpperCall(S, data, chan) == CallRecord(S, ServiceUpperMac(S.m, data, chan), data, chan)

\* a serviceUpperMac call made whatever the block's CRC
UpperCallAlways(S, block, size, chan) ==
    UpperCall(S, PduFromLen(block.bits, 0, size), chan)

\* a serviceUpperMac call made when the block's CRC is right
UpperCallIf(S, block, size, chan) ==
    IF block.crc THEN UpperCall(S, PduFromLen(block.bits, 0, size), chan) ELSE S

\* TetraCell::getScramblingCode: the 32-bit code as two 16-bit limbs <<high,
\* low>>, ((colorCode << 30) | (mcc << 20) | (mnc << 6)) with the extension
\* bits 11; it is the predefined code 0x0003 while no BSCH was decoded
GetScramblingCode(cell) ==
    <<(cell.colorCode % 4) * 16384 + cell.mcc * 16 + cell.mnc \div 1024,
      (cell.mnc % 1024) * 64 + 3>>

\* the code descramble() is given for the BSCH block
PredefinedCode == <<0, 3>>

\* descramble(block, len, code): the log of the codes used in this burst
Descramble(S, block, code) ==
    [S EXCEPT !.descr = Append(@, [block |-> block, code |-> code])]

\* descramble(block, len, m_tetraCell->getScramblingCode())
DescrambleCell(S, block) == Descramble(S, block, GetScramblingCode(S.m.m_tetraCell))

TrafficMode(m) == m.m_macState.downlinkUsage = "TRAFFIC" /\ m.m_tetraTime.fn <= 17

\* case SB with the second block dispatched before the AACH
ServiceSbAachLast(S, dec) ==
    UpperCall(DescrambleCell(UpperCallIf(DescrambleCell(S, "BKN2"), dec.bkn2, 124, "SCH_HD"),
                             "BBK"), dec.bbk, "AACH")

\* case SB, after the BSCH: AACH, then the second block on SCH/HD
ServiceSb(S, dec) ==
    UpperCallIf(DescrambleCell(UpperCall(DescrambleCell(S, "BBK"), dec.bbk, "AACH"), "BKN2"),
                dec.bkn2, 124, "SCH_HD")

\* case NDB, after the descrambling of BKN1 + BKN2
ServiceNdb(S, dec) ==
    IF TrafficMode(S.m) THEN UpperCall(S, dec.raw, "TCH_S")
    ELSE UpperCallIf(S, dec.bkn1, 268, "SCH_F")

\* case NDB_SF in traffic mode with the second half slot always taken as stolen
ServiceSecondAlways(S, dec) == UpperCallIf(S, dec.bkn2, 124, "STCH")

\* case NDB_SF in traffic mode, after the first half slot
ServiceStolenSecond(S, dec) ==
    IF S.m.m_secondSlotStolenFlag # 0 THEN UpperCallIf(S, dec.bkn2, 124, "STCH") ELSE S

\* case NDB_SF, after the descrambling of BKN1 and BKN2
ServiceNdbSf(S, dec, bnchFlag) ==
    IF TrafficMode(S.m)
    THEN ServiceStolenSecond(UpperCallIf(S, dec.bkn1, 124, "STCH"), dec)
    ELSE UpperCallIf(UpperCallIf(S, dec.bkn1, 124, "SCH_HD"), dec.bkn2, 124,
                     IF bnchFlag THEN "BNCH" ELSE "SCH_HD")

\* serviceLowerMac without the reset of m_secondSlotStolenFlag
ServiceLowerMacKeepFlag(m, burstType, dec) ==
    LET bnchFlag == m.m_tetraTime.fn = 18
                    /\ (m.m_tetraTime.mn + m.m_tetraTime.tn) % 4 = 1
        S0 == [m |-> m, calls |-> <<>>, descr |-> <<>>]
    IN  IF burstType = "SB"
        THEN ServiceSb(UpperCallIf(Descramble(S0, "BKN1", PredefinedCode), dec.bsch,
                                   Len(dec.bsch.bits), "BSCH"), dec)
        ELSE IF burstType = "NDB"
        THEN ServiceNdb(DescrambleCell(UpperCall(DescrambleCell(S0, "BBK"), dec.bbk, "AACH"),
                                       "BKN1"), dec)
        ELSE IF burstType = "NDB_SF"
        THEN ServiceNdbSf(DescrambleCell(DescrambleCell(
                              UpperCall(DescrambleCell(S0, "BBK"), dec.bbk, "AACH"),
                              "BKN1"), "BKN2"), dec, bnchFlag)
        ELSE S0

\* Mac::serviceLowerMac
ServiceLowerMac(m, burstType, dec) ==
    LET bnchFlag == m.m_tetraTime.fn = 18
                    /\ (m.m_tetraTime.mn + m.m_tetraTime.tn) % 4 = 1
        S0 == [m |-> [m EXCEPT !.m_secondSlotStolenFlag = 0], calls |-> <<>>,
               descr |-> <<>>]
    IN  IF burstType = "SB"
        THEN ServiceSb(UpperCallIf(Descramble(S0, "BKN1", PredefinedCode), dec.bsch,
                                   Len(dec.bsch.bits), "BSCH"), dec)
        ELSE IF burstType = "NDB"
        THEN ServiceNdb(DescrambleCell(UpperCall(DescrambleCell(S0, "BBK"), dec.bbk, "AACH"),
                                       "BKN1"), dec)
        ELSE IF burstType = "NDB_SF"
        THEN ServiceNdbSf(DescrambleCell(DescrambleCell(
                              UpperCall(DescrambleCell(S0, "BBK"), dec.bbk, "AACH"),
                              "BKN1"), "BKN2"), dec, bnchFlag)
        ELSE S0

(***************************************************************************)
(* Construction. Mac::Mac sets the TDMA time, clears the usage marker      *)
(* table and creates the defragmenter (stopped, empty). It gives no value  *)
(* to m_macAddress, m_macState and m_secondSlotStolenFlag, and             *)
(* MacDefrag::MacDefrag gives none to macAddress and startTime. The        *)
(* fields of m_macAddress that can be read before they are written (ssi,   *)
(* encryptionMode, usageMarker) start at any value of the Uninit sets; the *)
(* others are written before they are first read.                          *)
(***************************************************************************)
SsiA == 1193046
SsiB == 11259375

UninitSsi == {0, SsiB}
UninitEnc == {0, 3}
UninitMarker == {0, 63, 255}

MacAddressOf(ssi, enc, marker) ==
    [addressType |-> 0, ssi |-> ssi, ussi |-> 0, smi |-> 0, eventLabel |-> 0,
     usageMarker |-> marker, encryptionMode |-> enc]

\* MacDefrag::MacDefrag
DefragConstructed ==
    [m_sdu |-> <<>>, m_fragmentsCount |-> 0, b_stopped |-> TRUE,
     macAddress |-> MacAddressOf(0, 0, 0), startTime |-> TetraTimeInit]

\* Mac::Mac
MacConstructed(bRemoveFillBits, ssi, enc, marker) ==
    [m_tetraTime |-> TetraTimeInit,
     m_macAddress |-> MacAddressOf(ssi, enc, marker),
     m_macState |-> [downlinkUsage |-> "UNALLOCATED", downlinkUsageMarker |-> 0,
                     logicalChannel |-> "unknown"],
     m_usageMarkerEncryptionMode |-> [idx \in 0..63 |-> 0],
     m_secondSlotStolenFlag |-> 0,
     m_bRemoveFillBits |-> bRemoveFillBits,
     m_macDefrag |-> DefragConstructed,
     m_tetraCell |-> [mcc |-> 0, mnc |-> 0, colorCode |-> 0, downlinkFrequency |-> 0]]

\* TetraDecoder::TetraDecoder; the counter is the uint64_t as four 16-bit limbs
DecoderConstructed ==
    [m_frame |-> <<>>, m_bIsSynchronized |-> FALSE, m_syncBitCounter |-> <<0, 0, 0, 0>>]

(***************************************************************************)
(* Specification SpecTime: the TDMA counter alone. obs.n counts the        *)
(* incrementTn calls made.                                                 *)
(***************************************************************************)
MaxTicks == 4400

InitTime ==
    /\ decoder = DecoderConstructed
    /\ mac = MacConstructed(TRUE, 0, 0, 0)
    /\ feed = [spec |-> "time"]
    /\ obs = [n |-> 0]

TickTn ==
    /\ obs.n < MaxTicks
    /\ mac' = [mac EXCEPT !.m_tetraTime = IncrementTn(mac.m_tetraTime)]
    /\ obs' = [n |-> obs.n + 1]
    /\ UNCHANGED <<decoder, feed>>

NextTime == TickTn

SpecTime == InitTime /\ [][NextTime]_vars

\* C3: after n incrementTn calls from (1,1,1) the time is the mixed-radix
\* reading of n (tn wraps 4->1 into fn, fn wraps 18->1 into mn, mn wraps
\* 60->1), so it is always in range and it is (1,1,1) again exactly when n is
\* a multiple of 4*18*60 = 4320, never earlier.
C3_TdmaCounter ==
    LET t == mac.m_tetraTime
        n == obs.n
    IN  /\ t.tn = 1 + (n % 4)
        /\ t.fn = 1 + ((n \div 4) % 18)
        /\ t.mn = 1 + ((n \div (4 * 18)) % 60)
        /\ t.tn \in 1..4 /\ t.fn \in 1..18 /\ t.mn \in 1..60
        /\ (t = TetraTimeInit) <=> (n % (4 * 18 * 60) = 0)

C3_Witness ==
    obs.n = 4 * 18 * 60 /\ mac.m_tetraTime = TetraTimeInit

(***************************************************************************)
(* Specification SpecDefrag: the MacDefrag object under any sequence of    *)
(* its public calls. obs records the last call and its result, and what    *)
(* was asked of the object since the last start():                         *)
(*   started   a start() was made                                          *)
(*   prior     the object before the last start(): "never" started,        *)
(*             "stopped", or "active" with fragments in the buffer         *)
(*   startAddr the address given to the last start()                       *)
(*   run       the fragments given to append() since the last start()      *)
(*   clean     every call since the last start() was an append() with      *)
(*             startAddr, or a getSdu()                                    *)
(*   mism      an append() with another SSI was made on the started object *)
(*   late      an append() with startAddr was made after that              *)
(***************************************************************************)
MaxSduBits == 5

DefragAddresses ==
    {MacAddressOf(ssi, enc, 0) : ssi \in {SsiA, SsiB}, enc \in {0, 1}}

DefragFragments == {<<1>>, <<0, 1>>, <<1, 1, 0>>}

InitDefrag ==
    /\ decoder = DecoderConstructed
    /\ mac = MacConstructed(TRUE, 0, 0, 0)
    /\ feed = [spec |-> "defrag"]
    /\ obs = [op |-> "new", result |-> <<>>, started |-> FALSE, prior |-> "never",
              startAddr |-> MacAddressOf(0, 0, 0), run |-> <<>>, clean |-> FALSE,
              mism |-> FALSE, late |-> FALSE]

CallStart(address) ==
    /\ mac' = [mac EXCEPT !.m_macDefrag =
                   DefragStart(mac.m_macDefrag, address, mac.m_tetraTime)]
    /\ obs' = [obs EXCEPT !.op = "start", !.result = <<>>, !.started = TRUE,
                          !.prior = IF ~obs.started THEN "never"
                                    ELSE IF mac.m_macDefrag.b_stopped THEN "stopped"
                                    ELSE IF mac.m_macDefrag.m_sdu # <<>> THEN "active"
                                    ELSE "empty",
                          !.startAddr = address, !.run = <<>>, !.clean = TRUE,
                          !.mism = FALSE, !.late = FALSE]
    /\ UNCHANGED <<decoder, feed>>

CallAppend(sdu, address) ==
    /\ Len(mac.m_macDefrag.m_sdu) + Len(sdu) <= MaxSduBits
    /\ Len(Flatten(obs.run)) + Len(sdu) <= MaxSduBits
    /\ mac' = [mac EXCEPT !.m_macDefrag = DefragAppend(mac.m_macDefrag, sdu, address)]
    /\ obs' = [obs EXCEPT !.op = "append", !.result = <<>>,
                          !.run = IF obs.started THEN Append(obs.run, sdu) ELSE <<>>,
                          !.clean = obs.clean /\ address = obs.startAddr,
                          !.mism = obs.mism
                                   \/ (obs.started /\ ~mac.m_macDefrag.b_stopped
                                       /\ address.ssi # obs.startAddr.ssi),
                          !.late = obs.late \/ (obs.mism /\ address = obs.startAddr)]
    /\ UNCHANGED <<decoder, feed>>

CallGetSdu ==
    /\ obs' = [obs EXCEPT !.op = "getSdu",
                          !.result = DefragGetSdu(mac.m_macDefrag).sdu]
    /\ UNCHANGED <<decoder, mac, feed>>

CallStop ==
    /\ mac' = [mac EXCEPT !.m_macDefrag = DefragStop(mac.m_macDefrag)]
    /\ obs' = [obs EXCEPT !.op = "stop", !.result = <<>>, !.clean = FALSE]
    /\ UNCHANGED <<decoder, feed>>

NextDefrag ==
    \/ \E address \in DefragAddresses : CallStart(address)
    \/ \E sdu \in DefragFragments, address \in DefragAddresses : CallAppend(sdu, address)
    \/ CallGetSdu
    \/ CallStop

SpecDefrag == InitDefrag /\ [][NextDefrag]_vars

\* C5: whatever the defragmenter held before, after start(A, t) and then
\* append(f1, A) ... append(fn, A) (and nothing else but getSdu), getSdu
\* returns exactly f1 ++ ... ++ fn: no bit from before the start.
C5_Reassembly ==
    (obs.op = "getSdu" /\ obs.clean) => obs.result = Flatten(obs.run)

C5_Witness ==
    /\ obs.op = "getSdu" /\ obs.clean /\ obs.prior = "active"
    /\ Len(obs.run) >= 2 /\ obs.result = Flatten(obs.run)

\* C6: after start(A), once an append with another SSI was made, nothing is
\* in the buffer, the defragmenter is stopped, later appends (also with A)
\* add nothing and getSdu returns an empty PDU, until the next start.
C6_AddressMismatch ==
    obs.mism => /\ mac.m_macDefrag.b_stopped
                /\ mac.m_macDefrag.m_sdu = <<>>
                /\ (obs.op = "getSdu" => obs.result = <<>>)

C6_Witness ==
    /\ obs.mism /\ obs.late /\ obs.op = "getSdu" /\ obs.result = <<>>
    /\ Len(obs.run) >= 3

(***************************************************************************)
(* Burst synchronizer (TetraDecoder). m_syncBitCounter is a uint64_t: it   *)
(* is kept as four 16-bit limbs, least significant first, so that the      *)
(* decrement below zero wraps as the unsigned type does.                   *)
(***************************************************************************)
FRAME_LEN == 510

NORMAL_TRAINING_SEQ_1 == <<1,1,0,1,0,0,0,0,1,1,1,0,1,0,0,1,1,1,0,1,0,0>>
NORMAL_TRAINING_SEQ_2 == <<0,1,1,1,1,0,1,0,0,1,0,0,0,0,1,1,0,1,1,1,1,0>>
NORMAL_TRAINING_SEQ_3_BEGIN == <<0,0,0,1,1,0,1,0,1,1,0,1>>
NORMAL_TRAINING_SEQ_3_END == <<1,0,1,1,0,1,1,1,0,0>>
SYNC_TRAINING_SEQ ==
    <<1,1,0,0,0,0,0,1,1,0,0,1,1,1,0,0,1,1,1,0,1,0,0,1,1,1,0,0,0,0,0,1,1,0,0,1,1,1>>

LimbBase == 65536

CounterOf(n) == <<n % LimbBase, n \div LimbBase, 0, 0>>

CounterIsZero(c) == c = <<0, 0, 0, 0>>

\* c - 1 held at 0, as a counter that cannot wrap
CounterDecHeld(c) ==
    IF c[1] > 0 THEN [c EXCEPT ![1] = @ - 1]
    ELSE IF c[2] > 0 THEN [c EXCEPT ![1] = LimbBase - 1, ![2] = @ - 1]
    ELSE c

\* c - 1 modulo 2^64
CounterDec(c) ==
    IF c[1] > 0 THEN [c EXCEPT ![1] = @ - 1]
    ELSE IF c[2] > 0 THEN [c EXCEPT ![1] = LimbBase - 1, ![2] = @ - 1]
    ELSE IF c[3] > 0 THEN [c EXCEPT ![1] = LimbBase - 1, ![2] = LimbBase - 1, ![3] = @ - 1]
    ELSE IF c[4] > 0 THEN [c EXCEPT ![1] = LimbBase - 1, ![2] = LimbBase - 1,
                                    ![3] = LimbBase - 1, ![4] = @ - 1]
    ELSE <<LimbBase - 1, LimbBase - 1, LimbBase - 1, LimbBase - 1>>

\* the counter as a number when it is below 2^30, 2^30 when not
CounterLarge == 1073741824

CounterCapped(c) ==
    IF c[3] = 0 /\ c[4] = 0 /\ c[2] < 16384 THEN c[2] * LimbBase + c[1] ELSE CounterLarge

\* the record o of the calls after an rxSymbol call that ended synchronized
\* or not, with counter c
SyncTracked(o, sync, c) ==
    IF sync
    THEN [o EXCEPT !.syncLow = IF CounterCapped(c) < @ THEN CounterCapped(c) ELSE @,
                   !.syncHigh = IF CounterCapped(c) > @ THEN CounterCapped(c) ELSE @]
    ELSE o

\* c % k for a small k
CounterMod(c, k) ==
    LET r4 == c[4] % k
        r3 == (r4 * LimbBase + c[3]) % k
        r2 == (r3 * LimbBase + c[2]) % k
    IN  (r2 * LimbBase + c[1]) % k

\* TetraDecoder::patternAtPositionScore: the differences between pattern and
\* data[position .. position + size)
PatternAtPositionScore(data, pattern, position) ==
    Cardinality({idx \in 1..Len(pattern) : pattern[idx] # data[position + idx]})

\* resetSynchronizer allowing one symbol more
ResetSynchronizerLong(d) ==
    [d EXCEPT !.m_bIsSynchronized = TRUE,
              !.m_syncBitCounter = CounterOf(FRAME_LEN * 50 + 1)]

\* TetraDecoder::resetSynchronizer
ResetSynchronizer(d) ==
    [d EXCEPT !.m_bIsSynchronized = TRUE, !.m_syncBitCounter = CounterOf(FRAME_LEN * 50)]

\* the soft decision of processFrame with the later type winning a tie
SoftDecisionLastWins(scoreSync, scoreNormal1, scoreNormal2) ==
    LET d1 == IF scoreNormal1 <= scoreSync
              THEN [scoreMin |-> scoreNormal1, burstType |-> "NDB"]
              ELSE [scoreMin |-> scoreSync, burstType |-> "SB"]
    IN  IF scoreNormal2 <= d1.scoreMin
        THEN [scoreMin |-> scoreNormal2, burstType |-> "NDB_SF"]
        ELSE d1

\* The burst type processFrame decides on and its score
SoftDecision(scoreSync, scoreNormal1, scoreNormal2) ==
    LET d1 == IF scoreNormal1 < scoreSync
              THEN [scoreMin |-> scoreNormal1, burstType |-> "NDB"]
              ELSE [scoreMin |-> scoreSync, burstType |-> "SB"]
    IN  IF scoreNormal2 < d1.scoreMin
        THEN [scoreMin |-> scoreNormal2, burstType |-> "NDB_SF"]
        ELSE d1

\* the scores and the soft decision of processFrame
BurstDecision(frame) ==
    SoftDecision(PatternAtPositionScore(frame, SYNC_TRAINING_SEQ, 214),
                 PatternAtPositionScore(frame, NORMAL_TRAINING_SEQ_1, 244),
                 PatternAtPositionScore(frame, NORMAL_TRAINING_SEQ_2, 244))

\* what serviceLowerMac did with the burst: S is its result
SentToMac(S, b) ==
    [m |-> S.m, burst |-> b.burstType, decided |-> b.burstType, calls |-> S.calls]

\* the end of processFrame: b is the decision
SendToMac(m, b, dec) ==
    IF b.scoreMin <= 5
    THEN SentToMac(ServiceLowerMac(m, b.burstType, dec), b)
    ELSE [m |-> m, burst |-> "none", decided |-> b.burstType, calls |-> <<>>]

\* TetraDecoder::processFrame: the MAC after the frame; dec is what the
\* channel decoding of the frame's blocks gives
ProcessFrame(m, frame, dec) == SendToMac(m, BurstDecision(frame), dec)

\* the end of rxSymbol without the erase of the first symbol
RxCountNoErase(frame, o1, d1, process, pf, c2) ==
    LET lost == CounterIsZero(c2)
    IN  [decoder |-> [m_frame |-> IF process THEN <<>> ELSE frame,
                      m_bIsSynchronized |-> IF lost THEN FALSE
                                            ELSE d1.m_bIsSynchronized,
                      m_syncBitCounter |-> IF lost THEN CounterOf(0) ELSE c2],
         mac |-> pf.m,
         obs |-> IF lost
                 THEN [o1 EXCEPT !.losses = @ + 1, !.graceAtLoss = o1.graceCalls,
                                 !.sinceMatchAtLoss = o1.sinceMatch,
                                 !.lossesSinceMatch = @ + 1]
                 ELSE SyncTracked(o1, d1.m_bIsSynchronized, c2)]

(***************************************************************************)
(* TetraDecoder::rxSymbol on st = [decoder, mac, obs]. obs is the record   *)
(* of the process_burst (processFrame) calls:                              *)
(*   calls      the calls made during the current read, each with its kind *)
(*              ("match" or "grace"), the symbols received since the       *)
(*              previous call (gap), the burst type sent to the MAC and    *)
(*              the TDMA time after the call                               *)
(*   nCalls     the calls made so far                                      *)
(*   sinceCall  the symbols received since the last call                   *)
(*   graceCalls the grace calls made since the last match                  *)
(*   losses     how many times synchronization was lost                    *)
(*   matches    how many windows matched the training sequence             *)
(*   lossesSinceMatch  the losses since the last match                     *)
(*   syncLow, syncHigh   the least and the greatest value the counter had  *)
(*              at the end of an rxSymbol call that ended synchronized     *)
(*              (510 * 50 and 0 as long as there was none)                 *)
(*   graceAtLoss, sinceMatchAtLoss   graceCalls and the symbols received   *)
(*              since the last match, when synchronization was last lost   *)
(***************************************************************************)
\* the end of rxSymbol: the counter is decremented to c2, the loss test,
\* the erase of the first symbol; pf is what the processing gave
RxCount(frame, o1, d1, process, pf, c2) ==
    LET lost == CounterIsZero(c2)
    IN  [decoder |-> [m_frame |-> IF process THEN <<>> ELSE Tail(frame),
                      m_bIsSynchronized |-> IF lost THEN FALSE
                                            ELSE d1.m_bIsSynchronized,
                      m_syncBitCounter |-> IF lost THEN CounterOf(0) ELSE c2],
         mac |-> pf.m,
         obs |-> IF lost
                 THEN [o1 EXCEPT !.losses = @ + 1, !.graceAtLoss = o1.graceCalls,
                                 !.sinceMatchAtLoss = o1.sinceMatch,
                                 !.lossesSinceMatch = @ + 1]
                 ELSE SyncTracked(o1, d1.m_bIsSynchronized, c2)]

\* rxSymbol after the processing of the frame, if any
RxProcessed(frame, o, frameFound, d1, process, pf) ==
    RxCount(frame,
            IF process
            THEN [o EXCEPT !.calls = Append(@, [kind |-> IF frameFound THEN "match"
                                                          ELSE "grace",
                                                gap |-> IF o.nCalls = 0 THEN 0
                                                        ELSE o.sinceCall,
                                                burst |-> pf.burst,
                                                time |-> pf.m.m_tetraTime]),
                           !.nCalls = @ + 1,
                           !.sinceCall = 0,
                           !.sinceMatch = IF frameFound THEN 0 ELSE @,
                           !.matches = IF frameFound THEN @ + 1 ELSE @,
                           !.lossesSinceMatch = IF frameFound THEN 0 ELSE @,
                           !.graceCalls = IF frameFound THEN 0 ELSE @ + 1]
            ELSE o,
            d1, process, pf, CounterDec(d1.m_syncBitCounter))

\* rxSymbol with incrementTn called for the matched windows only
RxDecideMatchOnly(st, frame, o, dec, frameFound, d1, process) ==
    RxProcessed(frame, o, frameFound, d1, process,
                IF process
                THEN ProcessFrame(IF frameFound
                                  THEN [st.mac EXCEPT !.m_tetraTime = IncrementTn(@)]
                                  ELSE st.mac,
                                  frame, dec)
                ELSE [m |-> st.mac, burst |-> "none"])

\* rxSymbol from the test that decides whether the frame is processed
RxDecide(st, frame, o, dec, frameFound, d1, process) ==
    RxProcessed(frame, o, frameFound, d1, process,
                IF process
                THEN ProcessFrame([st.mac EXCEPT !.m_tetraTime = IncrementTn(@)],
                                  frame, dec)
                ELSE [m |-> st.mac, burst |-> "none"])

\* rxSymbol after the search of the training sequence
RxMatched(st, frame, o, dec, frameFound, d1) ==
    RxDecide(st, frame, o, dec, frameFound, d1,
             frameFound
             \/ (d1.m_bIsSynchronized /\ CounterMod(d1.m_syncBitCounter, 510) = 0))

\* rxSymbol on a full frame
RxFrame(st, frame, o, dec, frameFound) ==
    RxMatched(st, frame, o, dec, frameFound,
              IF frameFound THEN ResetSynchronizer(st.decoder) ELSE st.decoder)

\* rxSymbol matching only a window without any difference in its end
RxPushedExactEnd(st, frame, o, dec) ==
    IF Len(frame) < FRAME_LEN
    THEN [st EXCEPT !.decoder.m_frame = frame, !.obs = o]
    ELSE RxFrame(st, frame, o, dec,
                 PatternAtPositionScore(frame, NORMAL_TRAINING_SEQ_3_BEGIN, 0) = 0
                 /\ PatternAtPositionScore(frame, NORMAL_TRAINING_SEQ_3_END, 500) < 1)

\* rxSymbol after the push_back
RxPushed(st, frame, o, dec) ==
    IF Len(frame) < FRAME_LEN
    THEN [st EXCEPT !.decoder.m_frame = frame, !.obs = o]
    ELSE RxFrame(st, frame, o, dec,
                 PatternAtPositionScore(frame, NORMAL_TRAINING_SEQ_3_BEGIN, 0) = 0
                 /\ PatternAtPositionScore(frame, NORMAL_TRAINING_SEQ_3_END, 500) < 2)

RxSymbol(st, sym, dec) ==
    RxPushed(st, Append(st.decoder.m_frame, sym),
             [st.obs EXCEPT !.sinceCall = @ + 1, !.sinceMatch = @ + 1], dec)

(***************************************************************************)
(* Specification SpecSync: the read loop of main() feeding a symbol stream *)
(* to rxSymbol. The stream is fixed by feed.plan: lead noise symbols, one  *)
(* burst carrying the training sequences, then noise, with or without a    *)
(* second such burst starting plan.second symbols after the first one's    *)
(* end. feed.pos is the number of symbols read so far. What the channel    *)
(* decoding of a processed frame gives is plan.dec.                        *)
(***************************************************************************)
RXBUF_LEN == 1024

MaxSymbols == 52600

LeadSymbols == {0, 7}

BurstKinds == {"SB", "NDB", "NDB_SF"}

NoSecond == MaxSymbols

SecondOffsets == {NoSecond, 0, 510, 1020}

ReadSizes == {RXBUF_LEN, FRAME_LEN}

\* A TMO-SCH/BSCH SYNC PDU: 60 bits
BuildSync(colorCode, tn, fn, mn, mcc, mnc) ==
    ToBits(0, 4) \o ToBits(colorCode, 6) \o ToBits(tn - 1, 2) \o ToBits(fn, 5)
    \o ToBits(mn, 6) \o Rep(0, 8) \o ToBits(mcc, 10) \o ToBits(mnc, 14) \o Rep(0, 5)

\* the 16 CRC bits and the 4 tail bits that follow the type-1 bits in what
\* viterbiDecode1614 gives (80 bits for BKN1 of an SB, 144 for a half slot,
\* 288 for a slot)
CrcAndTail == Rep(1, 16) \o Rep(0, 4)

\* a block whose CRC is right after Viterbi decoding; bits are its type-1 bits
Ok(bits) == [crc |-> TRUE, bits |-> bits \o CrcAndTail]

\* a block whose CRC is wrong
Failed == [crc |-> FALSE, bits |-> <<>>]

DecodeFailed ==
    [bsch |-> [crc |-> FALSE, bits |-> <<>>], bbk |-> Rep(0, 14),
     bkn1 |-> [crc |-> FALSE, bits |-> <<>>], bkn2 |-> [crc |-> FALSE, bits |-> <<>>],
     raw |-> Rep(0, 432)]

\* The blocks of an SB burst in the last slot of frame 17 of a traffic
\* channel: the BSCH gives the time, the ACCESS-ASSIGN has header 01 and
\* field 1 = 5 (traffic, usage marker 5)
TrafficDecode ==
    [DecodeFailed EXCEPT !.bsch = Ok(BuildSync(1, 4, 17, 9, 208, 1)),
                         !.bbk = ToBits(1, 2) \o ToBits(5, 6) \o Rep(0, 6)]

SyncDecodes ==
    {DecodeFailed,
     [DecodeFailed EXCEPT !.bsch = Ok(BuildSync(1, 2, 5, 9, 208, 1))],
     TrafficDecode}

\* A burst of 510 symbols with the training sequences of its kind
GoodBurst(kind) ==
    [i \in 1..FRAME_LEN |->
        IF i <= 12 THEN NORMAL_TRAINING_SEQ_3_BEGIN[i]
        ELSE IF i > 500 THEN NORMAL_TRAINING_SEQ_3_END[i - 500]
        ELSE IF kind = "SB" /\ i > 214 /\ i <= 214 + 38 THEN SYNC_TRAINING_SEQ[i - 214]
        ELSE IF kind = "NDB" /\ i > 244 /\ i <= 244 + 22 THEN NORMAL_TRAINING_SEQ_1[i - 244]
        ELSE IF kind = "NDB_SF" /\ i > 244 /\ i <= 244 + 22
        THEN NORMAL_TRAINING_SEQ_2[i - 244]
        ELSE 0]

\* The i-th symbol of the stream, i from 0
StreamSymbol(plan, i) ==
    LET a == i - plan.lead
        b == a - FRAME_LEN - plan.second
    IN  IF a >= 0 /\ a < FRAME_LEN THEN plan.burst[a + 1]
        ELSE IF plan.second # NoSecond /\ b >= 0 /\ b < FRAME_LEN THEN plan.burst[b + 1]
        ELSE 0

\* the for loop of main() over the n bytes of one read, from stream position
\* pos: the first half of the bytes, then the second half. The test on mid
\* is always true; it has the first half evaluated before the second starts.
RECURSIVE RxFold(_, _, _, _)
\* the second half of the symbols of a read
RxFoldRest(mid, plan, pos, n) ==
    IF Len(mid.decoder.m_frame) < FRAME_LEN THEN RxFold(mid, plan, pos, n) ELSE mid

\* the for loop of main() over the n bytes of a read, from symbol pos on
RxFold(st, plan, pos, n) ==
    IF n = 0 THEN st
    ELSE IF n = 1 THEN RxSymbol(st, StreamSymbol(plan, pos), plan.dec)
    ELSE RxFoldRest(RxFold(st, plan, pos, n \div 2), plan, pos + n \div 2,
                    n - n \div 2)

ObsSyncInit ==
    [calls |-> <<>>, nCalls |-> 0, sinceCall |-> 0, sinceMatch |-> 0, graceCalls |-> 0,
     losses |-> 0, graceAtLoss |-> 0, sinceMatchAtLoss |-> 0,
     matches |-> 0, lossesSinceMatch |-> 0, syncLow |-> FRAME_LEN * 50, syncHigh |-> 0]

\* The plans checked: the single burst on both leads, for every kind, read
\* RXBUF_LEN bytes at a time; the single SB burst of a traffic channel; the
\* burst followed by a second one, with the BSCH readable or not, read one
\* burst length at a time
SyncPlans ==
    {p \in [lead : LeadSymbols, kind : BurstKinds, second : SecondOffsets,
            dec : SyncDecodes, size : ReadSizes] :
        IF p.dec = TrafficDecode
        THEN p.second = NoSecond /\ p.lead = 0 /\ p.kind = "SB" /\ p.size = FRAME_LEN
        ELSE IF p.second = NoSecond
        THEN p.dec = DecodeFailed /\ p.size = RXBUF_LEN
        ELSE p.lead = 0 /\ p.kind = "SB" /\ p.size = FRAME_LEN}

InitSync ==
    /\ decoder = DecoderConstructed
    /\ mac = MacConstructed(TRUE, 0, 0, 0)
    /\ \E p \in SyncPlans :
          feed = [spec |-> "sync", pos |-> 0, size |-> p.size,
                  plan |-> [lead |-> p.lead, burst |-> GoodBurst(p.kind),
                            second |-> p.second, dec |-> p.dec]]
    /\ obs = ObsSyncInit

\* One turn of the read loop of main(): read() gives n bytes, each is passed
\* to rxSymbol
\* the state after a read of n bytes
AfterRead(st, n) ==
    /\ decoder' = st.decoder
    /\ mac' = st.mac
    /\ obs' = st.obs
    /\ feed' = [feed EXCEPT !.pos = @ + n]

\* One turn of the read loop of main(): read() gives n bytes, each is passed
\* to rxSymbol
ReadBuffer ==
    /\ feed.pos < MaxSymbols
    /\ AfterRead(RxFold([decoder |-> decoder, mac |-> mac,
                         obs |-> [obs EXCEPT !.calls = <<>>]], feed.plan, feed.pos,
                        Min(feed.size, MaxSymbols - feed.pos)),
                 Min(feed.size, MaxSymbols - feed.pos))

NextSync == ReadBuffer

SpecSync == InitSync /\ [][NextSync]_vars

\* C1: every process_burst call made without a match while synchronized
\* comes exactly 510 symbols after the previous process_burst call.
C1_GraceAligned ==
    \A i \in 1..Len(obs.calls) : obs.calls[i].kind = "grace" => obs.calls[i].gap = FRAME_LEN

\* C2: when synchronization is lost after a match, exactly 50 process_burst
\* calls were made without a match since that match.
C2_GraceCount ==
    obs.losses > 0 => obs.graceAtLoss = 50

\* C11: between rxSymbol calls, in frame 18 the downlink usage is
\* COMMON_CONTROL (every burst processed has had its AACH dissected).
C11_Frame18CommonControl ==
    mac.m_tetraTime.fn = 18 => mac.m_macState.downlinkUsage = "COMMON_CONTROL"

(***************************************************************************)
(* Specification SpecMain: main() from the creation of its descriptors to  *)
(* its exit. feed holds the position of main (pc), the signal flag, errno  *)
(* as left by the last failing call, the exit status once exited and the   *)
(* event that ended the run (cause); the input is a stream with one NDB    *)
(* burst, read 1 or RXBUF_LEN bytes at a time, one symbol per byte.        *)
(***************************************************************************)
MaxMainBytes == 1200

EXIT_SUCCESS == 0

EXIT_FAILURE == 1

MainReadSizes == {1, RXBUF_LEN}

\* the descriptors main() creates before the decoder, and the failures it tests
SetupOutcomes == {"ok", "output socket", "output file", "input"}

\* what read() gives: bytes, end of input, or -1 with errno set
ReadErrnos == {"EINTR", "EIO"}

MainPlan == [lead |-> 0, burst |-> GoodBurst("NDB"), second |-> NoSecond, dec |-> DecodeFailed]

InitMain ==
    /\ decoder = DecoderConstructed
    /\ mac = MacConstructed(TRUE, 0, 0, 0)
    /\ feed = [spec |-> "main", pc |-> "setup", gSigintFlag |-> 0, errno |-> "0",
               status |-> EXIT_SUCCESS, cause |-> "none", pos |-> 0, plan |-> MainPlan]
    /\ obs = ObsSyncInit

\* main() leaves with the status given
MainExit(status, cause, errno) ==
    /\ feed' = [feed EXCEPT !.pc = "exited", !.status = status, !.cause = cause,
                            !.errno = errno]
    /\ UNCHANGED <<decoder, mac, obs>>

\* main() up to the creation of the decoder: exit(EXIT_FAILURE) when a
\* descriptor is negative
MainSetup ==
    /\ feed.pc = "setup"
    /\ \E outcome \in SetupOutcomes :
          IF outcome = "ok"
          THEN /\ feed' = [feed EXCEPT !.pc = "loop"]
               /\ UNCHANGED <<decoder, mac, obs>>
          ELSE MainExit(EXIT_FAILURE, "setup error", "EIO")

\* sigint_handler
SigintHandler ==
    /\ feed.pc = "loop"
    /\ feed.gSigintFlag = 0
    /\ feed' = [feed EXCEPT !.gSigintFlag = 1]
    /\ UNCHANGED <<decoder, mac, obs>>

\* the bytes read are passed to rxSymbol
MainPush(st, n) ==
    /\ decoder' = st.decoder
    /\ mac' = st.mac
    /\ obs' = st.obs
    /\ feed' = [feed EXCEPT !.pos = @ + n]

\* One turn of the while loop of main(), with what follows it when it is
\* left: the flag test, read(), the tests of errno and bytesRead, the
\* symbols to rxSymbol; after the loop the descriptors are closed and main
\* returns EXIT_SUCCESS
MainLoop ==
    /\ feed.pc = "loop"
    /\ IF feed.gSigintFlag # 0
       THEN MainExit(EXIT_SUCCESS, "signal", feed.errno)
       ELSE \/ \E e \in ReadErrnos :
                  MainExit(EXIT_SUCCESS, IF e = "EINTR" THEN "signal" ELSE "read error", e)
            \/ MainExit(EXIT_SUCCESS, "end of input", feed.errno)
            \/ \E n \in MainReadSizes :
                  /\ feed.pos + n <= MaxMainBytes
                  /\ MainPush(RxFold([decoder |-> decoder, mac |-> mac,
                                      obs |-> [obs EXCEPT !.calls = <<>>]],
                                     feed.plan, feed.pos, n), n)

NextMain == MainSetup \/ SigintHandler \/ MainLoop

SpecMain == InitMain /\ [][NextMain]_vars

\* C22: main exits with status 0 when its run ended by the end of the input
\* or a stop signal, and with a non-zero status when it ended by an I/O
\* error, a failing read() after the decoder was created included.
C22_ExitStatus ==
    feed.pc = "exited" =>
        (feed.status = 0 <=> feed.cause \in {"end of input", "signal"})

(***************************************************************************)
(* Specification SpecSymbol: rxSymbol called one symbol per step, on a     *)
(* stream that holds one burst, exact or with a flaw in its training       *)
(* sequence, after feed.plan.lead other symbols. obs is the record kept by *)
(* RxSymbol, with calls holding the process_burst call of the last         *)
(* rxSymbol call, if any (rxSymbol returned true iff it is a "match"),     *)
(* and with the buffer before that call (prev) and the symbol it was given *)
(* (sym).                                                                  *)
(***************************************************************************)
MaxSteps == 1600

\* the burst with the symbols at the positions in flips (from 0) inverted
Flip(burst, flips) == [i \in 1..Len(burst) |-> IF (i - 1) \in flips THEN 1 - burst[i]
                                                                   ELSE burst[i]]

\* the flaws checked: the positions inverted in an NDB burst. On the first
\* two the window is matched (d_begin = 0, d_end < 2), on the others not
MatchedFlaws == {{}, {505}}

RejectedFlaws == {{502, 509}, {3}, {0, 505}}

SymbolPlans ==
    {[lead |-> l, burst |-> Flip(GoodBurst("NDB"), f), flips |-> f, second |-> NoSecond,
      dec |-> DecodeFailed] : l \in {0, 3}, f \in MatchedFlaws \cup RejectedFlaws}

InitSymbol ==
    /\ decoder = DecoderConstructed
    /\ mac = MacConstructed(TRUE, 0, 0, 0)
    /\ \E p \in SymbolPlans : feed = [spec |-> "symbol", pos |-> 0, plan |-> p]
    /\ obs = [calls |-> <<>>, nCalls |-> 0, sinceCall |-> 0, sinceMatch |-> 0,
              graceCalls |-> 0, losses |-> 0, graceAtLoss |-> 0, sinceMatchAtLoss |-> 0,
              matches |-> 0, lossesSinceMatch |-> 0, syncLow |-> FRAME_LEN * 50,
              syncHigh |-> 0,
              prev |-> <<>>, sym |-> 0]

\* the state after one rxSymbol call
AfterSymbol(st) ==
    /\ decoder' = st.decoder
    /\ mac' = st.mac
    /\ obs' = st.obs
    /\ feed' = [feed EXCEPT !.pos = @ + 1]

\* One byte of the for loop of main(): rxSymbol(rxBuf[cnt])
RxStep ==
    /\ feed.pos < MaxSteps
    /\ AfterSymbol(RxSymbol([decoder |-> decoder, mac |-> mac,
                             obs |-> [obs EXCEPT !.calls = <<>>,
                                                 !.prev = decoder.m_frame,
                                                 !.sym = StreamSymbol(feed.plan, feed.pos)]],
                            StreamSymbol(feed.plan, feed.pos), feed.plan.dec))

NextSymbol == RxStep

SpecSymbol == InitSymbol /\ [][NextSymbol]_vars

\* rxSymbol returned true on the last call
ReturnedTrue == obs.calls # <<>> /\ obs.calls[1].kind = "match"

\* C16: for a burst with N3_BEGIN at 0..11 and fewer than 2 differences with
\* N3_END at 500..509, rxSymbol returns false on every symbol before the
\* 510th of the burst and true on the 510th, the first true return; the
\* match leaves synchronized set and the counter at 510*50, less the
\* decrement of that same call. A window with a difference in N3_BEGIN or
\* two in N3_END is not matched.
C16_BurstMatch ==
    /\ feed.pos < feed.plan.lead + FRAME_LEN => (~ReturnedTrue /\ obs.nCalls = 0)
    /\ (feed.pos = feed.plan.lead + FRAME_LEN /\ feed.plan.flips \in MatchedFlaws) =>
          /\ ReturnedTrue
          /\ obs.nCalls = 1
          /\ decoder.m_bIsSynchronized
          /\ decoder.m_syncBitCounter = CounterOf(FRAME_LEN * 50 - 1)
    /\ feed.plan.flips \in RejectedFlaws =>
          (~ReturnedTrue /\ obs.nCalls = 0 /\ ~decoder.m_bIsSynchronized)

C16_Witness ==
    /\ feed.plan.lead = 0
    /\ feed.plan.flips = {505}
    /\ feed.pos = FRAME_LEN
    /\ ReturnedTrue
    /\ decoder.m_bIsSynchronized

\* C17: after every rxSymbol call the buffer holds at most 509 symbols; it
\* is empty after a call that processed a burst; otherwise it is the buffer
\* of before with the new symbol at its end, less its first symbol when
\* that makes 510.
C17_BufferInvariant ==
    /\ Len(decoder.m_frame) <= FRAME_LEN - 1
    /\ obs.calls # <<>> => decoder.m_frame = <<>>
    /\ (obs.calls = <<>> /\ feed.pos > 0) =>
          decoder.m_frame = IF Len(obs.prev) + 1 < FRAME_LEN
                            THEN Append(obs.prev, obs.sym)
                            ELSE Tail(Append(obs.prev, obs.sym))

C17_Witness ==
    /\ obs.nCalls >= 1
    /\ obs.calls = <<>>
    /\ Len(obs.prev) = FRAME_LEN - 1
    /\ Len(decoder.m_frame) = FRAME_LEN - 1
    /\ decoder.m_frame = Tail(Append(obs.prev, obs.sym))

(***************************************************************************)
(* Downlink blocks as the base station builds them (EN 300 392-2 clause    *)
(* 21.4), field by field as the dissectors read them.                      *)
(***************************************************************************)
\* ACCESS-ASSIGN: header (2), field 1 (6), field 2 (6)
BuildAach(header, field1) == ToBits(header, 2) \o ToBits(field1, 6) \o Rep(0, 6)

\* fill bits up to n bits: a 1 then 0s
WithFill(bits, n) ==
    IF Len(bits) < n THEN bits \o <<1>> \o Rep(0, n - Len(bits) - 1) ELSE bits

\* MAC-RESOURCE: type 00, fill bit, position of grant 0, encryption mode,
\* random access flag 0, length, address type, address, no power control,
\* no slot granting, no channel allocation, TM-SDU
BuildResource(fillBitFlag, enc, length, addressType, address, sdu) ==
    <<0, 0, fillBitFlag, 0>> \o ToBits(enc, 2) \o <<0>> \o ToBits(length, 6)
    \o ToBits(addressType, 3) \o address \o <<0, 0, 0>> \o sdu

\* the Null PDU: address type 000, length 2 octets
NullPdu == <<0, 0, 0, 0>> \o ToBits(0, 2) \o <<0>> \o ToBits(2, 6) \o ToBits(0, 3)

\* 268 bits of MAC-RESOURCE headers one octet apart: each octet 00001100 reads
\* as length 1 octet and address type 100 with the octet that follows
ChainBlock == [i \in 1..268 |-> IF (i - 1) % 8 \in {4, 5} THEN 1 ELSE 0]

\* MAC-FRAG: type 01, subtype 0, fill bit, TM-SDU fragment
BuildMacFrag(fillBitFlag, sdu) == <<0, 1, 0, fillBitFlag>> \o sdu

\* MAC-END: type 01, subtype 1, fill bit, position of grant 0, length, no
\* slot granting, no channel allocation, TM-SDU fragment
BuildMacEnd(fillBitFlag, length, sdu) ==
    <<0, 1, 1, fillBitFlag, 0>> \o ToBits(length, 6) \o <<0, 0>> \o sdu

(***************************************************************************)
(* Specification SpecMac: the MAC under bursts of any type. Each step is   *)
(* one frame processed by rxSymbol: incrementTn, then serviceLowerMac on   *)
(* what the channel decoding gives for the burst. obs holds the number of  *)
(* bursts processed and, for the last one, its type, the CRC results of    *)
(* its blocks and the serviceUpperMac calls made.                          *)
(***************************************************************************)
MaxBursts == 2

UninitAddresses == {MacAddressOf(0, 0, 0), MacAddressOf(SsiB, 3, 63)}

MacInitStates ==
    {MacConstructed(b, a.ssi, a.encryptionMode, a.usageMarker) :
        b \in BOOLEAN, a \in UninitAddresses}

\* the (tn, fn, mn) fields of the BSCH checked
SyncTimes == {<<4, 18, 60>>, <<4, 17, 60>>, <<1, 0, 1>>, <<2, 31, 63>>}

AachBlocks == {BuildAach(0, 0), BuildAach(1, 5), BuildAach(2, 0)}

\* a whole MAC-RESOURCE of 6 octets for SsiA and one of 7 octets for SsiB,
\* without fill bits
ResourceA == BuildResource(0, 0, 6, 1, ToBits(SsiA, 24), <<1, 0, 1, 1, 0>>)

ResourceB ==
    BuildResource(0, 1, 7, 1, ToBits(SsiB, 24), <<0, 1, 1, 0, 0, 0, 1, 0, 1, 1, 1, 0, 1>>)

\* SCH/F blocks: a MAC-RESOURCE then the Null PDU; two MAC-RESOURCE then the
\* Null PDU
ResourceThenNull == WithFill(ResourceA \o NullPdu, 268)

TwoResources == WithFill(ResourceA \o ResourceB \o NullPdu, 268)

FullBlocks ==
    {Failed, Ok(ChainBlock), Ok(WithFill(NullPdu, 268)), Ok(ResourceThenNull),
     Ok(TwoResources)}

HalfBlocks == {Failed, Ok(PduFromLen(ChainBlock, 0, 124)), Ok(WithFill(NullPdu, 124))}

\* a MAC-FRAG with the fill bit flag set and nothing but 0s after it
EmptyFrag == BuildMacFrag(1, Rep(0, 120))

\* half slot blocks a base station does not send but the CRC lets through
OddBlocks == {EmptyFrag}

MacInputs ==
    {[burstType |-> "SB",
      dec |-> [bsch |-> b, bbk |-> a, bkn1 |-> Failed, bkn2 |-> h, raw |-> Rep(0, 432)]] :
        b \in {Failed} \cup {Ok(BuildSync(1, t[1], t[2], t[3], 208, 1)) : t \in SyncTimes},
        a \in AachBlocks \ {BuildAach(0, 0)}, h \in {Failed, Ok(WithFill(NullPdu, 124))}}
    \cup
    {[burstType |-> "NDB",
      dec |-> [bsch |-> Failed, bbk |-> a, bkn1 |-> f, bkn2 |-> Failed,
               raw |-> Rep(1, 432)]] :
        a \in AachBlocks, f \in FullBlocks}
    \cup
    {[burstType |-> "NDB_SF",
      dec |-> [bsch |-> Failed, bbk |-> a, bkn1 |-> h, bkn2 |-> h, raw |-> Rep(0, 432)]] :
        a \in AachBlocks \ {BuildAach(2, 0)}, h \in HalfBlocks}
    \cup
    {[burstType |-> "NDB_SF",
      dec |-> [bsch |-> Failed, bbk |-> a, bkn1 |-> h[1], bkn2 |-> h[2],
               raw |-> Rep(0, 432)]] :
        a \in AachBlocks \ {BuildAach(2, 0)},
        h \in {<<Failed, Ok(WithFill(NullPdu, 124))>>,
               <<Ok(PduFromLen(ChainBlock, 0, 124)), Failed>>}}
    \cup
    {[burstType |-> "NDB_SF",
      dec |-> [bsch |-> Failed, bbk |-> BuildAach(0, 0), bkn1 |-> Ok(h), bkn2 |-> Failed,
               raw |-> Rep(0, 432)]] : h \in OddBlocks}

InitMac ==
    /\ decoder = DecoderConstructed
    /\ mac \in MacInitStates
    /\ feed = [spec |-> "mac"]
    /\ obs = [n |-> 0, burstType |-> "none", calls |-> <<>>,
              crc |-> [bsch |-> FALSE, bkn1 |-> FALSE, bkn2 |-> FALSE],
              descr |-> <<>>, codeBefore |-> PredefinedCode, stolenBefore |-> 0]

\* the state after the burst: S is what serviceLowerMac gives
AfterBurst(S, in) ==
    /\ mac' = S.m
    /\ obs' = [n |-> obs.n + 1, burstType |-> in.burstType, calls |-> S.calls,
               crc |-> [bsch |-> in.dec.bsch.crc, bkn1 |-> in.dec.bkn1.crc,
                        bkn2 |-> in.dec.bkn2.crc],
               descr |-> S.descr, codeBefore |-> GetScramblingCode(mac.m_tetraCell),
               stolenBefore |-> mac.m_secondSlotStolenFlag]

\* One burst: incrementTn, then serviceLowerMac on the frame
ProcessBurst(in) ==
    /\ obs.n < MaxBursts
    /\ AfterBurst(ServiceLowerMac([mac EXCEPT !.m_tetraTime = IncrementTn(@)],
                                  in.burstType, in.dec), in)
    /\ UNCHANGED <<decoder, feed>>

NextMac == \E in \in MacInputs : ProcessBurst(in)

SpecMac == InitMac /\ [][NextMac]_vars

\* C4: tn is in 1..4, fn in 1..18 and mn in 1..60 in every state, also after
\* a BSCH that passed the CRC, whatever its fields.
C4_TimeInRange ==
    /\ mac.m_tetraTime.tn \in 1..4
    /\ mac.m_tetraTime.fn \in 1..18
    /\ mac.m_tetraTime.mn \in 1..60

\* C9: no serviceUpperMac call dissects more than 32 PDUs, and the calls of
\* one burst together do not either; the loop ends for every block.
C9_DissociationCap ==
    /\ \A i \in 1..Len(obs.calls) : obs.calls[i].pduCount \in 1..MaxPduCount
    /\ Len(Flatten([i \in 1..Len(obs.calls) |-> obs.calls[i].txt])) <= MaxPduCount

C9_Witness ==
    \E i \in 1..Len(obs.calls) :
        /\ obs.calls[i].data = ChainBlock
        /\ obs.calls[i].pduCount = 29
        /\ \A k \in 1..29 : obs.calls[i].txt[k] = "MAC-RESOURCE"

\* C10: after an AACH is dissected in frame 18 the downlink usage is
\* COMMON_CONTROL, whatever its header and field 1, also when the BSCH of
\* the same SB burst has just set the frame number to 18.
C10_AachFrame18 ==
    \A i \in 1..Len(obs.calls) :
        (obs.calls[i].channel = "AACH" /\ obs.calls[i].fn = 18)
            => obs.calls[i].downlinkUsage = "COMMON_CONTROL"

C10_Witness ==
    /\ obs.burstType = "SB"
    /\ Len(obs.calls) >= 2
    /\ obs.calls[1].channel = "BSCH"
    /\ obs.calls[2].channel = "AACH" /\ obs.calls[2].fn = 18
    /\ obs.calls[2].data = BuildAach(1, 5)
    /\ obs.calls[2].downlinkUsage = "COMMON_CONTROL"

\* the bits dissected by pass k of call c: the block from where the pass
\* starts
PassPdu(c, k) == PduFrom(c.data, Len(c.data) - c.passes[k].size)

\* pass k of call c dissects a Null PDU: a MAC-RESOURCE with address type 000
IsNullPass(c, k) ==
    /\ c.channel \in SignallingChannels
    /\ GetValue(PassPdu(c, k), 0, 2) = 0
    /\ GetValue(PassPdu(c, k), 13, 3) = 0

\* C12: a pass that dissects a MAC-RESOURCE with address type 000 hands
\* nothing to the upper layers, reports pduSizeInMac = -1 and is the last
\* pass of its block, be it the first pass or a later one.
C12_NullPduSuppression ==
    \A i \in 1..Len(obs.calls) : \A k \in 1..Len(obs.calls[i].passes) :
        IsNullPass(obs.calls[i], k) =>
            /\ obs.calls[i].passes[k].nOut = 0
            /\ obs.calls[i].passes[k].pduSizeInMac = -1
            /\ k = Len(obs.calls[i].passes)

C12_Witness ==
    \E i \in 1..Len(obs.calls) :
        /\ obs.calls[i].data = ResourceThenNull
        /\ Len(obs.calls[i].passes) = 2
        /\ IsNullPass(obs.calls[i], 2)
        /\ obs.calls[i].passes[2].size = 268 - 48
        /\ Len(obs.calls[i].out) = 1

\* pass k of call c dissects a MAC-RESOURCE that is not the Null PDU
IsResourcePass(c, k) ==
    /\ c.channel \in SignallingChannels
    /\ GetValue(PassPdu(c, k), 0, 2) = 0
    /\ GetValue(PassPdu(c, k), 13, 3) # 0

\* the length of the PDU of pass k in bits, as its length indication has it
PassLength(c, k) == 8 * DecodeLength(GetValue(PassPdu(c, k), 7, 6))

\* what call c handed to the upper layers up to pass k included
OutIndex(c, k) == Cardinality({j \in 1..k : c.passes[j].nOut = 1})

\* C13: when a pass dissects a MAC-RESOURCE, neither Null nor fragmenting,
\* of valid length L octets with at least 40 bits after it, the next pass
\* starts 8*L bits further in the block; a TM-SDU is delivered with the SSI
\* read in its own PDU; the block with two MAC-RESOURCE delivers exactly
\* their two TM-SDUs, in order, for SsiA then for SsiB.
C13_ResourceDissociation ==
    \A i \in 1..Len(obs.calls) :
        /\ \A k \in 1..Len(obs.calls[i].passes) :
              IsResourcePass(obs.calls[i], k) =>
                /\ ( /\ PassLength(obs.calls[i], k) > 0
                     /\ GetValue(PassPdu(obs.calls[i], k), 7, 6) < 62
                     /\ obs.calls[i].passes[k].size - PassLength(obs.calls[i], k)
                            >= MIN_MAC_RESOURCE_SIZE
                     /\ k < MaxPduCount )
                   => /\ k < Len(obs.calls[i].passes)
                      /\ obs.calls[i].passes[k + 1].size =
                            obs.calls[i].passes[k].size - PassLength(obs.calls[i], k)
                /\ ( /\ obs.calls[i].passes[k].nOut = 1
                     /\ GetValue(PassPdu(obs.calls[i], k), 13, 3) \in {1, 5, 6} )
                   => obs.calls[i].out[OutIndex(obs.calls[i], k)].address.ssi =
                          GetValue(PassPdu(obs.calls[i], k), 16, 24)
        /\ obs.calls[i].data = TwoResources =>
              /\ Len(obs.calls[i].out) = 2
              /\ obs.calls[i].out[1].sdu = <<1, 0, 1, 1, 0>>
              /\ obs.calls[i].out[1].address.ssi = SsiA
              /\ obs.calls[i].out[2].sdu = <<0, 1, 1, 0, 0, 0, 1, 0, 1, 1, 1, 0, 1>>
              /\ obs.calls[i].out[2].address.ssi = SsiB

C13_Witness ==
    \E i \in 1..Len(obs.calls) :
        /\ obs.calls[i].channel = "SCH_F"
        /\ obs.calls[i].data = TwoResources
        /\ Len(obs.calls[i].passes) = 3
        /\ obs.calls[i].passes[2].size = 268 - 8 * 6
        /\ obs.calls[i].passes[3].size = 268 - 8 * 6 - 8 * 7
        /\ Len(obs.calls[i].out) = 2
        /\ obs.calls[i].out[1].address.ssi = SsiA
        /\ obs.calls[i].out[2].address.ssi = SsiB

\* the channels of the serviceUpperMac calls of the last burst, in order
Channels == [i \in 1..Len(obs.calls) |-> obs.calls[i].channel]

\* C14: for an NDB burst the AACH is dispatched first; the 432 bits of
\* BKN1+BKN2 are dispatched as TCH_S, whatever the CRC, exactly when the
\* downlink usage left by that AACH is TRAFFIC and fn is in 1..17; otherwise
\* nothing is dispatched as TCH_S, and the block is dispatched as SCH_F
\* exactly when its CRC passes.
C14_TrafficPassthrough ==
    obs.burstType = "NDB" =>
        /\ Len(obs.calls) >= 1 /\ obs.calls[1].channel = "AACH"
        /\ IF obs.calls[1].downlinkUsage = "TRAFFIC" /\ obs.calls[1].fn \in 1..17
           THEN /\ Channels = <<"AACH", "TCH_S">>
                /\ obs.calls[2].data = Rep(1, 432)
           ELSE Channels = IF obs.crc.bkn1 THEN <<"AACH", "SCH_F">> ELSE <<"AACH">>

\* C15: in every burst exactly one AACH is dispatched; only the BSCH of an
\* SB burst is dispatched before it, and every SCH_F, SCH_HD, STCH, BNCH and
\* TCH_S dispatch of the burst comes after it.
C15_DispatchOrder ==
    obs.burstType \in {"SB", "NDB", "NDB_SF"} =>
        \E a \in 1..Len(Channels) :
            /\ Channels[a] = "AACH"
            /\ \A j \in 1..Len(Channels) :
                  /\ j < a => (Channels[j] = "BSCH" /\ obs.burstType = "SB" /\ a = 2)
                  /\ j > a => Channels[j] \in {"SCH_F", "SCH_HD", "STCH", "BNCH", "TCH_S"}

C15_Witness ==
    /\ obs.burstType = "SB"
    /\ Channels = <<"BSCH", "AACH", "SCH_HD">>

\* 1 for a block whose CRC passed, 0 otherwise
Passed(crc) == IF crc THEN 1 ELSE 0

\* the last burst was processed in traffic mode: the test made after its AACH
TrafficBurst ==
    \E a \in 1..Len(obs.calls) :
        /\ obs.calls[a].channel = "AACH"
        /\ obs.calls[a].downlinkUsage = "TRAFFIC"
        /\ obs.calls[a].fn <= 17

\* C20 as the code has it: for an SB or NDB_SF burst no block with a failed
\* CRC is dispatched and the AACH always is; a block whose CRC passes is
\* dispatched, except the second half slot of an NDB_SF burst in traffic
\* mode, which is dispatched (as STCH) only if the first half slot was
\* dissected: when the CRC of BKN1 fails, BKN2 is not dispatched either.
C20_FecFailureLocalButStolen ==
    /\ obs.burstType = "SB" =>
          Channels = (IF obs.crc.bsch THEN <<"BSCH">> ELSE <<>>) \o <<"AACH">>
                     \o (IF obs.crc.bkn2 THEN <<"SCH_HD">> ELSE <<>>)
    /\ (obs.burstType = "NDB_SF" /\ ~TrafficBurst) =>
          /\ Len(Channels) = 1 + Passed(obs.crc.bkn1) + Passed(obs.crc.bkn2)
          /\ Channels[1] = "AACH"
          /\ \A j \in 2..Len(Channels) : Channels[j] \in {"SCH_HD", "BNCH"}
    /\ (obs.burstType = "NDB_SF" /\ TrafficBurst) =>
          /\ Channels[1] = "AACH"
          /\ Len(Channels) <= 1 + Passed(obs.crc.bkn1) + Passed(obs.crc.bkn2)
          /\ Len(Channels) >= 1 + Passed(obs.crc.bkn1)
          /\ ~obs.crc.bkn1 => Channels = <<"AACH">>
          /\ \A j \in 2..Len(Channels) : Channels[j] = "STCH"

C20_Witness ==
    /\ obs.burstType = "NDB_SF"
    /\ TrafficBurst
    /\ ~obs.crc.bkn1 /\ obs.crc.bkn2
    /\ Channels = <<"AACH">>

\* C20 as stated: for an SB or NDB_SF burst the AACH is dispatched, no block
\* with a failed CRC is, and every block whose CRC passes is.
C20_FecFailureLocal ==
    obs.burstType \in {"SB", "NDB_SF"} =>
        /\ \E a \in 1..Len(Channels) : Channels[a] = "AACH"
        /\ Len(Channels) =
              1 + Passed(IF obs.burstType = "SB" THEN obs.crc.bsch ELSE obs.crc.bkn1)
                + Passed(obs.crc.bkn2)

\* C21: no dissection of a CRC-valid block reads a field that ends after
\* the end of the PDU it reads, nor extracts a sub-PDU that starts after it,
\* nor runs off its front while removing the fill bits.
C21_NoOutOfRange ==
    \A i \in 1..Len(obs.calls) : ~obs.calls[i].oor

(***************************************************************************)
(* Specification SpecScramble: the MAC under bursts of two cells. The SB   *)
(* bursts carry a BSCH of the cell (208, 1, colour 1) or of the cell       *)
(* (208, 2, colour 2), readable or not, and an SCH/HD block, readable or   *)
(* not; NDB and NDB_SF bursts come between them. obs.descr is the log of   *)
(* the descramble() calls of the last burst and obs.codeBefore the code of *)
(* the cell before it.                                                     *)
(***************************************************************************)
ScrambleCells == {<<1, 208, 1>>, <<2, 208, 2>>}

ScrambleInputs ==
    {[burstType |-> "SB",
      dec |-> [bsch |-> b, bbk |-> BuildAach(1, 5), bkn1 |-> Failed, bkn2 |-> h,
               raw |-> Rep(0, 432)]] :
        b \in {Failed} \cup {Ok(BuildSync(c[1], 4, 17, 60, c[2], c[3])) : c \in ScrambleCells},
        h \in {Failed, Ok(WithFill(NullPdu, 124))}}
    \cup
    {[burstType |-> "NDB",
      dec |-> [bsch |-> Failed, bbk |-> BuildAach(0, 0), bkn1 |-> Ok(ResourceThenNull),
               bkn2 |-> Failed, raw |-> Rep(1, 432)]],
     [burstType |-> "NDB_SF",
      dec |-> [bsch |-> Failed, bbk |-> BuildAach(0, 0), bkn1 |-> Ok(WithFill(NullPdu, 124)),
               bkn2 |-> Failed, raw |-> Rep(0, 432)]]}

NextScramble == \E in \in ScrambleInputs : ProcessBurst(in)

SpecScramble == InitMac /\ [][NextScramble]_vars

\* the scrambling code the fields of a BSCH block give
CodeOfSync(pdu) ==
    GetScramblingCode([mcc |-> GetValue(pdu, 31, 10), mnc |-> GetValue(pdu, 41, 14),
                       colorCode |-> GetValue(pdu, 4, 6)])

\* the code the AACH block and the second block of the last burst were
\* descrambled with
CodesUsed == {obs.descr[i].code : i \in {j \in 1..Len(obs.descr) : obs.descr[j].block # "BKN1"}}

\* C23: in an SB burst whose BSCH passes the CRC, the AACH block and BKN2 are
\* descrambled with the code of that BSCH's (MCC, MNC, colour code); when it
\* fails, with the code in force before the burst; and the code of the cell
\* after a burst differs from the one before it only in an SB burst whose
\* BSCH passed the CRC.
C23_ScramblingOrder ==
    /\ obs.burstType = "SB" =>
          /\ {obs.descr[i].block : i \in 1..Len(obs.descr)} = {"BKN1", "BBK", "BKN2"}
          /\ CodesUsed = {IF obs.crc.bsch THEN CodeOfSync(obs.calls[1].data)
                          ELSE obs.codeBefore}
    /\ GetScramblingCode(mac.m_tetraCell) # obs.codeBefore =>
          obs.burstType = "SB" /\ obs.crc.bsch

\* an SB burst with a readable BSCH of another cell than the one before, and
\* one with an unreadable BSCH after the code was changed
C23_Witness ==
    /\ obs.burstType = "SB"
    /\ obs.crc.bsch
    /\ obs.codeBefore \notin {PredefinedCode, GetScramblingCode(mac.m_tetraCell)}

C23_WitnessFailed ==
    /\ obs.burstType = "SB"
    /\ ~obs.crc.bsch
    /\ obs.codeBefore # PredefinedCode

(***************************************************************************)
(* Specification SpecBurst: processFrame on windows of 510 symbols whose   *)
(* training sequence positions hold a sequence exact, with 5 or with 6     *)
(* differences, the synchronisation sequence overwritten by part of a      *)
(* normal one (equal distances), or a mix of the two normal sequences. obs *)
(* holds the window, the decision and the serviceUpperMac calls made.      *)
(***************************************************************************)
MaxWindows == 2

\* differences written in a training sequence, as offsets from its start
FlawSets == {{}, {0, 3, 7, 12, 21}, {0, 3, 7, 12, 20, 21}}

\* the window of kind with flaws in its own sequence
FlawedBurst(kind, flaws) ==
    Flip(GoodBurst(kind), {(IF kind = "SB" THEN 214 ELSE 244) + x : x \in flaws})

\* an SB window on which normal sequence 1 is written at 244, but for the
\* last k of the 8 symbols the two sequences share
NormalOverSync(k) ==
    [i \in 1..FRAME_LEN |->
        IF i > 244 /\ i <= 244 + 22 /\ (i <= 244 + 8 - k \/ i > 244 + 8)
        THEN NORMAL_TRAINING_SEQ_1[i - 244]
        ELSE GoodBurst("SB")[i]]

\* sequence 1 with its first k symbols replaced by those of sequence 2
NormalMix(k) ==
    [i \in 1..FRAME_LEN |->
        IF i > 244 /\ i <= 244 + k THEN NORMAL_TRAINING_SEQ_2[i - 244]
        ELSE GoodBurst("NDB")[i]]

BurstWindows ==
    {FlawedBurst(kind, flaws) : kind \in BurstKinds, flaws \in FlawSets}
    \cup {NormalOverSync(k) : k \in 0..7}
    \cup {NormalMix(k) : k \in {8, 10, 12}}
    \cup {Rep(0, FRAME_LEN)}

InitBurst ==
    /\ decoder = DecoderConstructed
    /\ mac \in MacInitStates
    /\ feed = [spec |-> "burst"]
    /\ obs = [n |-> 0, frame |-> <<>>, burst |-> "none", decided |-> "none",
              calls |-> <<>>, macBefore |-> mac]

\* the state after processFrame: pf is what it did
AfterWindow(pf, frame) ==
    /\ mac' = pf.m
    /\ obs' = [n |-> obs.n + 1, frame |-> frame, burst |-> pf.burst,
               decided |-> pf.decided, calls |-> pf.calls, macBefore |-> mac]

\* TetraDecoder::processFrame on a window
ProcessWindow(frame, dec) ==
    /\ obs.n < MaxWindows
    /\ AfterWindow(ProcessFrame(mac, frame, dec), frame)
    /\ UNCHANGED <<decoder, feed>>

NextBurst == \E frame \in BurstWindows, dec \in SyncDecodes : ProcessWindow(frame, dec)

SpecBurst == InitBurst /\ [][NextBurst]_vars

\* the Hamming distance between pattern and the window from offset on
RECURSIVE HammingFrom(_, _, _, _)
HammingFrom(frame, pattern, offset, idx) ==
    IF idx > Len(pattern) THEN 0
    ELSE (IF pattern[idx] = frame[offset + idx] THEN 0 ELSE 1)
         + HammingFrom(frame, pattern, offset, idx + 1)

DistSync == HammingFrom(obs.frame, SYNC_TRAINING_SEQ, 214, 1)

DistNormal1 == HammingFrom(obs.frame, NORMAL_TRAINING_SEQ_1, 244, 1)

DistNormal2 == HammingFrom(obs.frame, NORMAL_TRAINING_SEQ_2, 244, 1)

\* the type of minimum distance, SB before NDB before NDB_SF
MinimumType ==
    IF DistSync <= DistNormal1 /\ DistSync <= DistNormal2 THEN "SB"
    ELSE IF DistNormal1 <= DistNormal2 THEN "NDB"
    ELSE "NDB_SF"

MinimumDistance == Min(DistSync, Min(DistNormal1, DistNormal2))

\* C24: processFrame decides for the type whose training sequence has the
\* minimum Hamming distance to the window (SYNC at 214, N1 and N2 at 244;
\* SB before NDB before NDB_SF on equal distances), gives the window to the
\* lower MAC as that type iff the minimum is <= 5, and otherwise dispatches
\* no logical channel and leaves the MAC as it was.
C24_BurstTypeDecision ==
    obs.n > 0 =>
        /\ obs.decided = MinimumType
        /\ obs.burst = (IF MinimumDistance <= 5 THEN MinimumType ELSE "none")
        /\ MinimumDistance <= 5 =>
              /\ obs.calls # <<>>
              /\ \E i \in 1..Len(obs.calls) : obs.calls[i].channel = "AACH"
        /\ MinimumDistance > 5 => obs.calls = <<>> /\ mac = obs.macBefore

\* a window with equal distances 3 to the synchronisation sequence and to
\* normal sequence 1, dispatched as SB
C24_Witness ==
    /\ obs.n > 0
    /\ DistSync = 3
    /\ DistNormal1 = 3
    /\ obs.burst = "SB"

(***************************************************************************)
(* Specification SpecSteal: the MAC under NDB_SF bursts in signalling and  *)
(* in traffic mode, with each half slot readable or not and the first one  *)
(* announcing or not that the second is stolen; SB bursts between them set *)
(* the frame and multiframe numbers.                                       *)
(***************************************************************************)
\* a MAC-RESOURCE whose length indication says the second half slot is stolen
StolenResource ==
    WithFill(BuildResource(0, 0, 62, 1, ToBits(SsiA, 24), <<1, 0, 1, 1, 0>>), 124)

StealInputs ==
    {[burstType |-> "SB",
      dec |-> [bsch |-> Ok(BuildSync(1, t[1], t[2], t[3], 208, 1)), bbk |-> BuildAach(1, 5),
               bkn1 |-> Failed, bkn2 |-> Failed, raw |-> Rep(0, 432)]] : t \in SyncTimes}
    \cup
    {[burstType |-> "NDB_SF",
      dec |-> [bsch |-> Failed, bbk |-> a, bkn1 |-> h1, bkn2 |-> h2, raw |-> Rep(0, 432)]] :
        a \in {BuildAach(0, 0), BuildAach(1, 5)},
        h1 \in {Failed, Ok(WithFill(NullPdu, 124)), Ok(StolenResource)},
        h2 \in {Failed, Ok(WithFill(NullPdu, 124))}}

NextSteal == \E in \in StealInputs : ProcessBurst(in)

SpecSteal == InitMac /\ [][NextSteal]_vars

\* the last burst was processed in traffic mode: the state the AACH left
AachTraffic == obs.calls[1].downlinkUsage = "TRAFFIC" /\ obs.calls[1].fn <= 17

\* the dissection of the first half slot set the stolen flag
SecondStolen == obs.crc.bkn1 /\ Len(obs.calls) >= 2 /\ obs.calls[2].stolen # 0

\* the channels of the calls made after the AACH
ChannelsAfterAach == [i \in 1..(Len(obs.calls) - 1) |-> obs.calls[i + 1].channel]

When(cond, chan) == IF cond THEN <<chan>> ELSE <<>>

C26_Truncation ==
    \A i \in 1..Len(obs.calls) :
        /\ obs.calls[i].channel = "BSCH" => Len(obs.calls[i].data) = 60
        /\ obs.calls[i].channel \in {"SCH_HD", "STCH", "BNCH"} => Len(obs.calls[i].data) = 124
        /\ obs.calls[i].channel = "SCH_F" => Len(obs.calls[i].data) = 268

\* the same for the channels other than BSCH
C26_TruncationButBsch ==
    \A i \in 1..Len(obs.calls) :
        /\ obs.calls[i].channel \in {"SCH_HD", "STCH", "BNCH"} => Len(obs.calls[i].data) = 124
        /\ obs.calls[i].channel = "SCH_F" => Len(obs.calls[i].data) = 268

\* pass k of call c dissects a MAC-RESOURCE with an SSI (address type 001),
\* without fill bits, power control, slot granting and channel allocation
\* elements, that does not start a fragmentation: its TM-SDU is at bit 43
IsPlainResourcePass(c, k) ==
    /\ c.channel \in SignallingChannels
    /\ GetValue(PassPdu(c, k), 0, 3) = 0
    /\ GetValue(PassPdu(c, k), 13, 3) = 1
    /\ GetValue(PassPdu(c, k), 40, 3) = 0
    /\ GetValue(PassPdu(c, k), 7, 6) # 63

\* the TM-SDU pass k of call c delivered is the bits from 43 to its length
\* indication, and none when that is no range
PlainExtent(c, k) ==
    /\ c.passes[k].pduSizeInMac = PassLength(c, k)
    /\ c.passes[k].nOut = (IF PassLength(c, k) - 43 > 0 THEN 1 ELSE 0)
    /\ c.passes[k].nOut = 1 =>
          /\ Len(c.out[OutIndex(c, k)].sdu) = PassLength(c, k) - 43
          /\ c.out[OutIndex(c, k)].sdu = SubSeq(PassPdu(c, k), 44, PassLength(c, k))

\* C27: a MAC-RESOURCE that is neither the Null PDU nor the start of a
\* fragmentation delivers the bits of its PDU from the end of its header
\* (bit 43 with an SSI and no optional element) to 8 * decodeLength(L), that
\* is 8 * decodeLength(L) - 43 bits, delivers nothing when that is <= 0, and
\* reports pduSizeInMac = 8 * decodeLength(L).
C27_TmSduExtent ==
    \A i \in 1..Len(obs.calls) : \A k \in 1..Len(obs.calls[i].passes) :
        IsPlainResourcePass(obs.calls[i], k) => PlainExtent(obs.calls[i], k)

\* the same for the length indications that do not exceed the block
C27_TmSduExtentInBlock ==
    \A i \in 1..Len(obs.calls) : \A k \in 1..Len(obs.calls[i].passes) :
        ( /\ IsPlainResourcePass(obs.calls[i], k)
          /\ PassLength(obs.calls[i], k) <= obs.calls[i].passes[k].size )
        => PlainExtent(obs.calls[i], k)

(***************************************************************************)
(* Specification SpecMarker: the MAC, constructed with any value in the    *)
(* usage marker of m_macAddress, under the PDUs that write or read the     *)
(* table m_usageMarkerEncryptionMode: a fragmented TM-SDU opened by a      *)
(* MAC-RESOURCE with an SSI or with an SSI and a usage marker, MAC-FRAG,   *)
(* MAC-END, a whole MAC-RESOURCE with a usage marker, the Null PDU, and    *)
(* traffic bursts.                                                         *)
(***************************************************************************)
MarkerInitStates ==
    {MacConstructed(b, 0, 0, marker) : b \in BOOLEAN, marker \in UninitMarker}

MarkerBurst(burstType, aach, bkn1, bkn2) ==
    [burstType |-> burstType,
     dec |-> [bsch |-> Failed, bbk |-> aach, bkn1 |-> bkn1, bkn2 |-> bkn2,
              raw |-> Rep(1, 432)]]

\* the start of a fragmented TM-SDU for an SSI, encryption mode 2
StartForSsi == WithFill(BuildResource(1, 2, 63, 1, ToBits(SsiA, 24), <<1, 0, 1>>), 268)

\* the same with usage marker 9 assigned
StartForMarker ==
    WithFill(BuildResource(1, 2, 63, 6, ToBits(SsiA, 24) \o ToBits(9, 6),
                           <<1, 0, 1>>), 268)

\* a whole MAC-RESOURCE that assigns usage marker 63, encryption mode 1
AssignMarker ==
    WithFill(BuildResource(1, 1, 7, 6, ToBits(SsiB, 24) \o ToBits(63, 6), <<1, 1, 0, 1, 1, 0, 1>>),
             268)

MarkerInputs ==
    {MarkerBurst("NDB", BuildAach(0, 0), Ok(b), Failed) :
        b \in {StartForSsi, StartForMarker, AssignMarker, WithFill(NullPdu, 268)}}
    \cup
    {MarkerBurst("NDB_SF", BuildAach(0, 0), Failed, Ok(WithFill(h, 124))) :
        h \in {BuildMacEnd(1, 2, <<1, 1>>), BuildMacFrag(1, <<0, 1, 0>>)}}
    \cup
    {MarkerBurst("NDB", BuildAach(1, 5), Failed, Failed),
     MarkerBurst("NDB", BuildAach(1, 63), Failed, Failed)}

InitMarker ==
    /\ decoder = DecoderConstructed
    /\ mac \in MarkerInitStates
    /\ feed = [spec |-> "marker"]
    /\ obs = [n |-> 0, burstType |-> "none", calls |-> <<>>,
              crc |-> [bsch |-> FALSE, bkn1 |-> FALSE, bkn2 |-> FALSE],
              descr |-> <<>>, codeBefore |-> PredefinedCode, stolenBefore |-> 0]

NextMarker == \E in \in MarkerInputs : ProcessBurst(in)

SpecMarker == InitMarker /\ [][NextMarker]_vars

\* the last call of the last burst dissected a MAC-END that gave a
\* reassembled TM-SDU
EndedWithSdu ==
    /\ obs.calls # <<>>
    /\ obs.calls[Len(obs.calls)].txt = <<"MAC-END">>
    /\ obs.calls[Len(obs.calls)].out # <<>>

\* the last call of the last burst dissected a MAC-RESOURCE with address
\* type 110
AssignedMarker ==
    /\ obs.calls # <<>>
    /\ obs.calls[Len(obs.calls)].txt[1] = "MAC-RESOURCE"
    /\ GetValue(obs.calls[Len(obs.calls)].data, 13, 3) = 6

\* C28: the index of every write to the 64-entry table is in 0..63: the
\* usage marker a MAC-RESOURCE of address type 110 carries, and the usage
\* marker the defragmenter holds when a MAC-END gives a reassembled TM-SDU.
C28_MarkerIndex ==
    /\ AssignedMarker => mac.m_macAddress.usageMarker \in 0..63
    /\ EndedWithSdu => mac.m_macDefrag.macAddress.usageMarker \in 0..63

\* the table changes only in a burst with a MAC-RESOURCE of address type 110
\* or a MAC-END that gives a reassembled TM-SDU
C28_TableFrame ==
    [][mac'.m_usageMarkerEncryptionMode # mac.m_usageMarkerEncryptionMode
       => (AssignedMarker' \/ EndedWithSdu')]_vars

(***************************************************************************)
(* Specification SpecDBlock: the MAC under blocks that hold a PDU of type  *)
(* 11, alone or after a MAC-RESOURCE of the same block, on SCH/F, SCH/HD,  *)
(* BNCH and STCH; SB bursts set the frame number for the BNCH.             *)
(***************************************************************************)
\* MAC-D-BLCK: type 11, subtype 0, fill bit, encryption mode, event label,
\* no napping, slot granting flag and element, TM-SDU
BuildDBlock(fillBitFlag, enc, eventLabel, grant, sdu) ==
    <<1, 1, 0, fillBitFlag>> \o ToBits(enc, 2) \o ToBits(eventLabel, 10) \o <<0, grant>>
    \o (IF grant = 1 THEN Rep(0, 8) ELSE <<>>) \o sdu

\* whole slots: the 268 bits of a MAC-D-BLCK, the same with fill bits and
\* slot granting, and a MAC-RESOURCE followed by type 11 bits
DBlockSlots ==
    {BuildDBlock(0, 1, 77, 0, Rep(1, 250)),
     WithFill(BuildDBlock(1, 2, 78, 1, <<1, 0, 0, 1>>), 268),
     WithFill(ResourceA \o BuildDBlock(0, 1, 77, 0, <<1, 0, 1>>), 268)}

\* half slots: type 11 bits alone and after a MAC-RESOURCE
DBlockHalves ==
    {WithFill(BuildDBlock(0, 1, 77, 0, <<1, 0, 1>>), 124),
     WithFill(ResourceA \o BuildDBlock(0, 1, 77, 0, <<1, 0, 1>>), 124)}

DBlockInputs ==
    {MarkerBurst("NDB", BuildAach(0, 0), Ok(b), Failed) : b \in DBlockSlots}
    \cup
    {MarkerBurst("NDB_SF", a, Ok(h), Ok(h)) :
        a \in {BuildAach(0, 0), BuildAach(1, 5)}, h \in DBlockHalves}
    \cup
    {[burstType |-> "SB",
      dec |-> [bsch |-> Ok(BuildSync(1, 4, 17, 60, 208, 1)), bbk |-> BuildAach(0, 0),
               bkn1 |-> Failed, bkn2 |-> Ok(h), raw |-> Rep(0, 432)]] : h \in DBlockHalves}

NextDBlock == \E in \in DBlockInputs : ProcessBurst(in)

SpecDBlock == InitMac /\ [][NextDBlock]_vars

\* pass k of call c dissects a PDU with type bits 11
IsType11Pass(c, k) ==
    /\ c.channel \in SignallingChannels
    /\ c.passes[k].size >= 2
    /\ GetValue(PassPdu(c, k), 0, 2) = 3

\* the TM-SDU the function held before pass k of call c
SduBefore(c, k) == IF k = 1 THEN <<>> ELSE c.passes[k - 1].sdu

\* sequence a is the start of sequence b
IsPrefix(a, b) == Len(a) <= Len(b) /\ SubSeq(b, 1, Len(a)) = a

\* the TM-SDU of the MAC-D-BLCK pdu: what follows its header
DBlockSdu(pdu) == PduFrom(pdu, 18 + (IF pdu[18] = 1 THEN 8 ELSE 0))

\* C29: a pass on a PDU with type bits 11 derives a TM-SDU from it only on
\* SCH_F and only when the PDU has at least 268 bits; on STCH and SCH_HD the
\* PDU is an error and the TM-SDU held is left as it was; on BNCH, and on
\* any channel with fewer than 268 bits, the pass holds and delivers no
\* TM-SDU.
C29_DBlockChannels ==
    \A i \in 1..Len(obs.calls) : \A k \in 1..Len(obs.calls[i].passes) :
        IsType11Pass(obs.calls[i], k) =>
            /\ obs.calls[i].channel \in {"STCH", "SCH_HD"} =>
                  /\ obs.calls[i].txt[k] = "MAC-ERROR"
                  /\ obs.calls[i].passes[k].sdu = SduBefore(obs.calls[i], k)
            /\ ( obs.calls[i].channel = "BNCH"
                 \/ ( obs.calls[i].channel = "SCH_F" /\ obs.calls[i].passes[k].size < 268 ) )
               => /\ obs.calls[i].passes[k].sdu = <<>>
                  /\ obs.calls[i].passes[k].nOut = 0
            /\ ( obs.calls[i].channel = "SCH_F" /\ obs.calls[i].passes[k].size >= 268 )
               => /\ obs.calls[i].txt[k] = "MAC-D-BLCK"
                  /\ obs.calls[i].passes[k].sdu # <<>>
                  /\ IsPrefix(obs.calls[i].passes[k].sdu, DBlockSdu(PassPdu(obs.calls[i], k)))
                  /\ obs.calls[i].passes[k].nOut = 1

\* a MAC-D-BLCK of 268 bits on SCH_F delivered its 250 bits
C29_Witness ==
    \E i \in 1..Len(obs.calls) :
        /\ obs.calls[i].channel = "SCH_F"
        /\ IsType11Pass(obs.calls[i], 1)
        /\ obs.calls[i].txt = <<"MAC-D-BLCK">>
        /\ Len(obs.calls[i].out) = 1
        /\ obs.calls[i].out[1].sdu = Rep(1, 250)

\* C30: synchronization is lost once per match at most and never before
\* the first match: the loss is counted (the message printed) once at the
\* symbol where the counter reaches 0, m_bIsSynchronized is cleared there,
\* and no later symbol counts it again until a window matches.
C30_SyncLossOnce ==
    /\ obs.lossesSinceMatch <= 1
    /\ obs.matches = 0 => obs.losses = 0
    /\ obs.losses <= obs.matches
    /\ decoder.m_bIsSynchronized <=> (obs.matches > 0 /\ obs.lossesSinceMatch = 0)
    /\ decoder.m_bIsSynchronized => ~CounterIsZero(decoder.m_syncBitCounter)

\* synchronization was lost and a whole burst length of symbols came after
C30_Witness ==
    /\ obs.losses = 1
    /\ obs.lossesSinceMatch = 1
    /\ ~decoder.m_bIsSynchronized
    /\ obs.sinceMatch >= obs.sinceMatchAtLoss + 2 * FRAME_LEN

\* the TDMA time after the process_burst call c made at time before: the
\* time of the BSCH when the window is an SB burst with a readable BSCH
TimeAfterCall(before, c) ==
    IF c.burst = "SB" /\ feed.plan.dec.bsch.crc
    THEN PduProcessSync(mac, feed.plan.dec.bsch.bits).m.m_tetraTime
    ELSE IncrementTn(before)

\* the TDMA time before call k of the calls of a read that began at time t
TimeBeforeCall(calls, k, t) == IF k = 1 THEN t ELSE calls[k - 1].time

\* C31: over the rxSymbol calls of one read, the TDMA time is incremented
\* once for every window handed to processFrame, matched or not, sent to
\* the MAC or rejected, and changes in no other rxSymbol call.
C31_TimeAdvance ==
    [][ /\ \A k \in 1..Len(obs'.calls) :
              obs'.calls[k].time
                  = TimeAfterCall(TimeBeforeCall(obs'.calls, k, mac.m_tetraTime),
                                  obs'.calls[k])
        /\ mac'.m_tetraTime = IF obs'.calls = <<>> THEN mac.m_tetraTime
                               ELSE obs'.calls[Len(obs'.calls)].time ]_vars

\* a window processed without a match and rejected advanced the time
C31_Witness ==
    \E k \in 1..Len(obs.calls) :
        /\ obs.calls[k].kind = "grace"
        /\ obs.calls[k].burst = "none"
        /\ obs.calls[Len(obs.calls)].time = mac.m_tetraTime
        /\ obs.graceCalls >= 5

\* the PDUs that carry no TM-SDU
NoSduPdus == {"ACCESS-DEFINE", "RESERVED", "MAC-FRAG", "MAC-ERROR"}

\* C32: a pass that dissects an ACCESS-DEFINE, a reserved broadcast type, a
\* MAC-FRAG or a type 11 PDU on SCH_HD or STCH delivers no TM-SDU to the
\* upper layer, also when it follows a MAC-RESOURCE of the same block that
\* delivered one.
C32_NoSduNoDelivery ==
    \A i \in 1..Len(obs.calls) : \A k \in 1..Len(obs.calls[i].passes) :
        ( obs.calls[i].channel \in SignallingChannels
          /\ obs.calls[i].txt[k] \in NoSduPdus )
        => obs.calls[i].passes[k].nOut = 0

\* the same for the first PDU of a block and for MAC-FRAG anywhere: the
\* function holds no TM-SDU yet, or does not send
C32_NoSduNoDeliveryFirst ==
    \A i \in 1..Len(obs.calls) : \A k \in 1..Len(obs.calls[i].passes) :
        ( obs.calls[i].channel \in SignallingChannels
          /\ obs.calls[i].txt[k] \in NoSduPdus
          /\ (k = 1 \/ obs.calls[i].txt[k] = "MAC-FRAG") )
        => obs.calls[i].passes[k].nOut = 0

(***************************************************************************)
(* Specification SpecClose: the MAC under the PDUs that open, feed and     *)
(* close a reassembly: the start of a fragmented TM-SDU for an SSI, a      *)
(* whole MAC-RESOURCE for another SSI, MAC-FRAG, and MAC-END with lengths  *)
(* inside and outside of [0b000010, 0b100010].                             *)
(***************************************************************************)
MaxCloseBursts == 4

\* the lengths of the MAC-END checked: the two ends of the range and the
\* values next to them
EndLengths == {1, 2, 34, 35}

CloseInputs ==
    {MarkerBurst("NDB", BuildAach(0, 0), Ok(b), Failed) : b \in {StartForSsi, AssignMarker}}
    \cup
    {MarkerBurst("NDB_SF", BuildAach(0, 0), Failed,
                 Ok(WithFill(BuildMacEnd(1, l, <<1, 1>>), 124))) : l \in EndLengths}
    \cup
    {MarkerBurst("NDB_SF", BuildAach(0, 0), Failed,
                 Ok(WithFill(BuildMacFrag(1, <<0, 1, 0>>), 124)))}

\* One burst: incrementTn, then serviceLowerMac on the frame
CloseBurst(in) ==
    /\ obs.n < MaxCloseBursts
    /\ AfterBurst(ServiceLowerMac([mac EXCEPT !.m_tetraTime = IncrementTn(@)],
                                  in.burstType, in.dec), in)
    /\ UNCHANGED <<decoder, feed>>

NextClose == \E in \in CloseInputs : CloseBurst(in)

SpecClose == InitMarker /\ [][NextClose]_vars

\* the last call of the last burst dissected one PDU, named txt
LastPduIs(txt) ==
    /\ obs.calls # <<>>
    /\ obs.calls[Len(obs.calls)].txt = <<txt>>

\* the 6-bit length of the MAC-END of the last call
LastEndLength == GetValue(obs.calls[Len(obs.calls)].data, 5, 6)

\* the last burst held a MAC-END with a length outside of the range
DroppedEnd == LastPduIs("MAC-END") /\ (LastEndLength < 2 \/ LastEndLength > 34)

\* the last burst held a MAC-END with a length of the range
DissectedEnd == LastPduIs("MAC-END") /\ LastEndLength >= 2 /\ LastEndLength <= 34

\* C33: a burst whose MAC-END has a length outside of [0b000010, 0b100010]
\* delivers no TM-SDU and leaves the defragmenter (buffer, fragment count,
\* stopped or not), m_macAddress and the usage marker table as they were.
C33_EndLengthCheck ==
    [][DroppedEnd' =>
          /\ obs'.calls[Len(obs'.calls)].out = <<>>
          /\ mac'.m_macDefrag = mac.m_macDefrag
          /\ mac'.m_macAddress = mac.m_macAddress
          /\ mac'.m_usageMarkerEncryptionMode = mac.m_usageMarkerEncryptionMode]_vars

\* a MAC-END of length 35 was dropped while a reassembly was going on
C33_Witness ==
    /\ DroppedEnd
    /\ LastEndLength = 35
    /\ ~mac.m_macDefrag.b_stopped
    /\ mac.m_macDefrag.m_sdu # <<>>

\* C34: every rxSymbol call that ends synchronized ends with the counter in
\* 1 .. 510 * 50 - 1; m_bIsSynchronized becomes true only in a read where a
\* window matched the training sequence and false only in a read where the
\* counter reached 0.
C34_SynchronizerInvariant ==
    [][ /\ obs'.syncLow >= 1
        /\ obs'.syncHigh <= FRAME_LEN * 50 - 1
        /\ decoder'.m_bIsSynchronized =>
               /\ CounterCapped(decoder'.m_syncBitCounter) >= obs'.syncLow
               /\ CounterCapped(decoder'.m_syncBitCounter) <= obs'.syncHigh
        /\ (~decoder.m_bIsSynchronized /\ decoder'.m_bIsSynchronized)
               => obs'.matches > obs.matches
        /\ (decoder.m_bIsSynchronized /\ ~decoder'.m_bIsSynchronized)
               => obs'.losses > obs.losses ]_vars

\* the counter went from 510 * 50 - 1 down to 1 and synchronization was lost
C34_Witness ==
    /\ obs.syncHigh = FRAME_LEN * 50 - 1
    /\ obs.syncLow = 1
    /\ obs.losses = 1
    /\ ~decoder.m_bIsSynchronized

\* C35: the counter is in 0 .. 510 * 50 in every state: the decrement made on
\* every full window never takes it below 0.
C35_CounterBound == CounterCapped(decoder.m_syncBitCounter) <= FRAME_LEN * 50

\* the counter is in 0 .. 510 * 50 as long as the decoder is synchronized or
\* no full window came yet
C35_CounterBoundSynchronized ==
    (decoder.m_bIsSynchronized \/ feed.pos < FRAME_LEN)
    => CounterCapped(decoder.m_syncBitCounter) <= FRAME_LEN * 50

\* the last burst held a MAC-RESOURCE that starts a fragmented TM-SDU
StartedReassembly ==
    /\ obs.calls # <<>>
    /\ obs.calls[Len(obs.calls)].txt[1] = "MAC-RESOURCE"
    /\ GetValue(obs.calls[Len(obs.calls)].data, 7, 6) = 63

\* C38: after a MAC-END with a length of the range the defragmenter is
\* stopped and empty, whether a TM-SDU was delivered or not; a stopped
\* defragmenter stays stopped until a MAC-RESOURCE starts a fragmented
\* TM-SDU, and a MAC-FRAG or MAC-END dissected while it is stopped delivers
\* no TM-SDU and leaves the usage marker table and the encryption mode of
\* m_macAddress as they were.
C38_ClosedByMacEnd ==
    [][ /\ DissectedEnd' =>
              /\ mac'.m_macDefrag.b_stopped
              /\ mac'.m_macDefrag.m_sdu = <<>>
              /\ mac'.m_macDefrag.m_fragmentsCount = 0
        /\ (mac.m_macDefrag.b_stopped /\ ~mac'.m_macDefrag.b_stopped) => StartedReassembly'
        /\ (mac.m_macDefrag.b_stopped /\ (LastPduIs("MAC-FRAG")' \/ LastPduIs("MAC-END")')) =>
              /\ obs'.calls[Len(obs'.calls)].out = <<>>
              /\ mac'.m_usageMarkerEncryptionMode = mac.m_usageMarkerEncryptionMode
              /\ mac'.m_macAddress.encryptionMode = mac.m_macAddress.encryptionMode ]_vars

\* a MAC-END of valid length that follows the MAC-END of a reassembly for
\* SsiA delivered nothing
C38_Witness ==
    /\ DissectedEnd
    /\ obs.calls[Len(obs.calls)].out = <<>>
    /\ mac.m_macAddress.ssi = SsiA
    /\ mac.m_macDefrag.macAddress.ssi = SsiA
    /\ mac.m_macDefrag.b_stopped

(***************************************************************************)
(* Specification SpecNull: the MAC under Null PDUs with every fill bit     *)
(* flag, encryption modes 0 and 3 and the lengths 2 octets, 0b111110 and   *)
(* 0b111111, on SCH/F and, in traffic mode, in the first half slot of an   *)
(* NDB_SF burst; the start of a fragmented TM-SDU and a MAC-RESOURCE with  *)
(* a usage marker set the state the Null PDUs are to leave alone.          *)
(***************************************************************************)
\* MAC-RESOURCE with address type 000
NullWith(fillBitFlag, enc, length) ==
    <<0, 0, fillBitFlag, 0>> \o ToBits(enc, 2) \o <<0>> \o ToBits(length, 6) \o ToBits(0, 3)

NullPdus == {NullWith(f, e, l) : f \in {0, 1}, e \in {0, 3}, l \in {2, 62, 63}}

NullInputs ==
    {MarkerBurst("NDB", BuildAach(0, 0), Ok(b), Failed) : b \in {StartForSsi, AssignMarker}}
    \cup
    {MarkerBurst("NDB", BuildAach(0, 0), Ok(WithFill(b, 268)), Failed) : b \in NullPdus}
    \cup
    {MarkerBurst("NDB_SF", BuildAach(1, 5), Ok(WithFill(b, 124)), Ok(WithFill(ResourceA, 124))) :
        b \in {NullWith(0, 3, 62), NullWith(1, 0, 63)}}

NextNull == \E in \in NullInputs : ProcessBurst(in)

SpecNull == InitMarker /\ [][NextNull]_vars

\* call c dissected a Null PDU and nothing else
IsNullCall(c) == Len(c.passes) = 1 /\ IsNullPass(c, 1)

\* the first signalling call of the last burst dissected a Null PDU and
\* nothing else was dissected before it but the ACCESS-ASSIGN
NullFirst ==
    /\ Len(obs.calls) >= 2
    /\ obs.calls[1].channel = "AACH"
    /\ IsNullCall(obs.calls[2])

\* C37: a Null PDU (MAC-RESOURCE with address type 000), whatever its fill
\* bit flag, encryption mode and length, leaves m_macAddress, the usage
\* marker table and the defragmenter as they were and does not set
\* m_secondSlotStolenFlag: the second half slot that follows it is not sent
\* as STCH.
C37_NullPduFrame ==
    [][ NullFirst' =>
          /\ obs'.calls[2].m_macAddress = mac.m_macAddress
          /\ obs'.calls[2].table = mac.m_usageMarkerEncryptionMode
          /\ obs'.calls[2].defrag = mac.m_macDefrag
          /\ obs'.calls[2].stolen = 0
          /\ obs'.calls[2].out = <<>>
          /\ \A i \in 3..Len(obs'.calls) : obs'.calls[i].channel # "STCH" ]_vars

\* a Null PDU with encryption mode 3 and length 0b111111 came on SCH/F
\* during a reassembly with encryption mode 2
C37_Witness ==
    /\ NullFirst
    /\ obs.calls[2].channel = "SCH_F"
    /\ GetValue(obs.calls[2].data, 4, 2) = 3
    /\ GetValue(obs.calls[2].data, 7, 6) = 63
    /\ ~mac.m_macDefrag.b_stopped
    /\ mac.m_macAddress.encryptionMode = 2

\* a Null PDU with length 0b111110 came in the first half slot in traffic
\* mode and the second half slot, whose CRC was right, was left as traffic
C37_WitnessStolen ==
    /\ NullFirst
    /\ obs.calls[2].channel = "STCH"
    /\ GetValue(obs.calls[2].data, 7, 6) = 62
    /\ obs.crc.bkn2
    /\ Len(obs.calls) = 2

(***************************************************************************)
(* Specification SpecLife: the bursts of SpecSteal, and more: the stolen   *)
(* indication in a MAC-RESOURCE dissociated from the first half slot, and  *)
(* in the SCH/F block of an NDB burst, where no second half slot follows   *)
(* it. obs.stolenBefore is m_secondSlotStolenFlag as the burst before left *)
(* it.                                                                     *)
(***************************************************************************)
\* a whole MAC-RESOURCE for SsiA then one for SsiB with length 0b111110
StolenSecondPdu ==
    WithFill(ResourceA \o BuildResource(0, 0, 62, 1, ToBits(SsiB, 24), <<1, 1, 0>>), 124)

LifeInputs ==
    StealInputs
    \cup
    {MarkerBurst("NDB_SF", BuildAach(1, 5), Ok(StolenSecondPdu), Ok(WithFill(NullPdu, 124))),
     MarkerBurst("NDB", BuildAach(0, 0), Ok(WithFill(StolenResource, 268)), Failed)}

NextLife == \E in \in LifeInputs : ProcessBurst(in)

SpecLife == InitMac /\ [][NextLife]_vars

\* pass k of call c dissects a MAC-RESOURCE, not the Null PDU, with the
\* length indication l
IsResourceOfLength(c, k, l) ==
    IsResourcePass(c, k) /\ GetValue(PassPdu(c, k), 7, 6) = l

\* the first half slot of the last burst held the stolen indication and no
\* start of fragmentation after it
StolenIndicated ==
    /\ obs.crc.bkn1
    /\ Len(obs.calls) >= 2
    /\ \E k \in 1..Len(obs.calls[2].passes) :
          /\ IsResourceOfLength(obs.calls[2], k, 62)
          /\ \A j \in (k + 1)..Len(obs.calls[2].passes) :
                ~IsResourceOfLength(obs.calls[2], j, 63)

\* C39: m_secondSlotStolenFlag is 0 when the first block of a burst is
\* dissected, whatever the burst before left; in a traffic mode NDB_SF
\* burst BKN2 is sent as STCH only when the CRC-valid BKN1 of that burst
\* held a MAC-RESOURCE, not the Null PDU, with length 0b111110 and no
\* MAC-RESOURCE with length 0b111111 after it.
C39_StolenLifetime ==
    /\ obs.calls # <<>> => obs.calls[1].stolen = 0
    /\ ( obs.burstType = "NDB_SF" /\ AachTraffic
         /\ Len(obs.calls) >= 3 /\ obs.calls[3].channel = "STCH" )
       => StolenIndicated

\* the burst before left the flag set; in this traffic mode burst BKN1
\* failed its CRC and the CRC-valid BKN2 was not sent
C39_Witness ==
    /\ obs.stolenBefore = 1
    /\ obs.burstType = "NDB_SF"
    /\ AachTraffic
    /\ ~obs.crc.bkn1
    /\ obs.crc.bkn2
    /\ Len(obs.calls) = 1

\* BKN2 was sent as STCH after a stolen indication dissociated from BKN1
C39_WitnessDissociated ==
    /\ obs.burstType = "NDB_SF"
    /\ AachTraffic
    /\ Len(obs.calls) = 3
    /\ obs.calls[3].channel = "STCH"
    /\ Len(obs.calls[2].passes) = 2
    /\ IsResourceOfLength(obs.calls[2], 2, 62)

\* the last pass of call c is one the loop does not go on from: fewer than
\* 40 bits are left after its PDU, or it is not a MAC-RESOURCE with a
\* positive size that sends its TM-SDU
LastPassEnds(c) ==
    \/ c.passes[Len(c.passes)].size - c.passes[Len(c.passes)].pduSizeInMac
          < MIN_MAC_RESOURCE_SIZE
    \/ c.txt[Len(c.passes)] # "MAC-RESOURCE"
    \/ c.passes[Len(c.passes)].pduSizeInMac <= 0
    \/ GetValue(PassPdu(c, Len(c.passes)), 7, 6) = 63

\* C40: every pass the loop goes on from takes at least 8 bits from the
\* front of the PDU, the PDU of every pass after the first has at least 40
\* bits, and the loop is left because fewer than 40 bits remain or the PDU
\* is not dissociable, before the count of 32 is reached.
C40_DissociationProgress ==
    \A i \in 1..Len(obs.calls) :
        /\ \A k \in 1..(Len(obs.calls[i].passes) - 1) :
              /\ obs.calls[i].passes[k].pduSizeInMac >= 8
              /\ obs.calls[i].passes[k + 1].size
                    = obs.calls[i].passes[k].size - obs.calls[i].passes[k].pduSizeInMac
              /\ obs.calls[i].passes[k + 1].size >= MIN_MAC_RESOURCE_SIZE
        /\ obs.calls[i].pduCount = Len(obs.calls[i].passes)
        /\ obs.calls[i].pduCount < MaxPduCount
        /\ LastPassEnds(obs.calls[i])

\* the block of one-octet MAC-RESOURCE: 29 passes, the last one on 44 bits
C40_Witness ==
    \E i \in 1..Len(obs.calls) :
        /\ obs.calls[i].data = ChainBlock
        /\ Len(obs.calls[i].passes) = 29
        /\ obs.calls[i].passes[29].size = 44
        /\ obs.calls[i].passes[29].pduSizeInMac = 8

(***************************************************************************)
(* Specification SpecLength: decodeLength on every value of the 6-bit      *)
(* length indication. feed.val is the value, obs the result once the call  *)
(* is made.                                                                *)
(***************************************************************************)
MaxLengthIndication == 63

InitLength ==
    /\ decoder = DecoderConstructed
    /\ mac = MacConstructed(TRUE, 0, 0, 0)
    /\ \E v \in 0..MaxLengthIndication : feed = [spec |-> "length", val |-> v]
    /\ obs = [done |-> FALSE, ret |-> 0]

CallDecodeLength ==
    /\ ~obs.done
    /\ obs' = [done |-> TRUE, ret |-> DecodeLength(feed.val)]
    /\ UNCHANGED <<decoder, mac, feed>>

NextLength == CallDecodeLength

SpecLength == InitLength /\ [][NextLength]_vars

\* C18: decodeLength gives 0 for 0, 59, 60 and 61, the value itself from 1
\* to 58, 62 for 62 and 63 for 63.
C18_DecodeLength ==
    obs.done =>
        /\ feed.val \in {0, 59, 60, 61} => obs.ret = 0
        /\ feed.val \in 1..58 => obs.ret = feed.val
        /\ feed.val = 62 => obs.ret = 62
        /\ feed.val = 63 => obs.ret = 63

C18_Witness ==
    /\ obs.done
    /\ feed.val = 60
    /\ obs.ret = 0

(***************************************************************************)
(* Specification SpecFill: removeFillBits on a PDU x followed by its fill  *)
(* bits, a 1 then k 0s, with the removal enabled or not (mac). feed holds  *)
(* x and k, obs the result once the call is made.                          *)
(***************************************************************************)
MaxFillX == 4

MaxFillZeros == 3

\* the bit sequences of length n
RECURSIVE BitSeqs(_)
BitSeqs(n) ==
    IF n = 0 THEN {<<>>} ELSE {Append(x, b) : x \in BitSeqs(n - 1), b \in {0, 1}}

\* 23.4.3.2: the fill bits appended to x, a 1 then k 0s
AppendFillBits(x, k) == x \o <<1>> \o Rep(0, k)

InitFill ==
    /\ decoder = DecoderConstructed
    /\ \E b \in BOOLEAN : mac = MacConstructed(b, 0, 0, 0)
    /\ \E n \in 0..MaxFillX : \E x \in BitSeqs(n) : \E k \in 0..MaxFillZeros :
          feed = [spec |-> "fill", x |-> x, k |-> k]
    /\ obs = [done |-> FALSE, ret |-> <<>>]

CallRemoveFillBits ==
    /\ ~obs.done
    /\ obs' = [done |-> TRUE, ret |-> RemoveFillBits(mac, AppendFillBits(feed.x, feed.k))]
    /\ UNCHANGED <<decoder, mac, feed>>

NextFill == CallRemoveFillBits

SpecFill == InitFill /\ [][NextFill]_vars

\* C19: with the removal enabled, removeFillBits of x followed by a 1 and k
\* 0s is x, for every x and k: a strict prefix of what it was given.
C19_FillBitsRoundTrip ==
    (obs.done /\ mac.m_bRemoveFillBits) =>
        /\ obs.ret = feed.x
        /\ Len(obs.ret) < Len(AppendFillBits(feed.x, feed.k))
        /\ obs.ret = SubSeq(AppendFillBits(feed.x, feed.k), 1, Len(obs.ret))

C19_Witness ==
    /\ obs.done
    /\ mac.m_bRemoveFillBits
    /\ feed.x = <<1, 0, 1, 0>>
    /\ feed.k = 3
    /\ obs.ret = <<1, 0, 1, 0>>

(***************************************************************************)
(* Specification SpecFrag: the MAC under the PDUs of a fragmented TM-SDU   *)
(* and the PDUs that can come between them, one PDU per burst:             *)
(*   start    MAC-RESOURCE with length 111111 for SsiA (address type 110), *)
(*            on SCH/F                                                     *)
(*   frag     MAC-FRAG, on SCH/HD (first half slot)                        *)
(*   end      MAC-END, on SCH/HD (second half slot)                        *)
(*   between  a whole MAC-RESOURCE addressed by event label, with another  *)
(*            encryption mode, on SCH/F                                    *)
(*   other    a whole MAC-RESOURCE for SsiB, on SCH/HD                     *)
(* An input gives the block, the encryption mode and usage marker of its   *)
(* header, its TM-SDU part (sdu) and all the bits after its header (rest). *)
(* obs keeps, since the last start, the kinds of the PDUs received (seq)   *)
(* and their TM-SDU parts as the fill bits option leaves them (parts), the *)
(* mode and marker of the start, the encryption mode of m_macAddress       *)
(* before the last burst (modeBefore) and what the last burst handed to    *)
(* the LLC (out).                                                          *)
(***************************************************************************)
MaxFragBursts == 5

FragMarker == 9

FragInput(kind, burstType, block, size, enc, hdr, sdu) ==
    [kind |-> kind, burstType |-> burstType, enc |-> enc, sdu |-> sdu,
     rest |-> PduFrom(WithFill(block, size), hdr),
     dec |-> [bsch |-> Failed, bbk |-> BuildAach(0, 0),
              bkn1 |-> IF kind = "end" THEN Failed ELSE Ok(WithFill(block, size)),
              bkn2 |-> IF kind = "end" THEN Ok(WithFill(block, size)) ELSE Failed,
              raw |-> Rep(0, 432)]]

FragStartSdus == {<<1, 0, 1>>, <<0, 1, 1, 0>>}

FragInputs ==
    {FragInput("start", "NDB",
               BuildResource(1, 2, 63, 6, ToBits(SsiA, 24) \o ToBits(FragMarker, 6), sdu),
               268, 2, 49, sdu) : sdu \in FragStartSdus}
    \cup
    {FragInput("frag", "NDB_SF", BuildMacFrag(1, <<0, 1, 0>>), 124, 0, 4, <<0, 1, 0>>),
     FragInput("end", "NDB_SF", BuildMacEnd(1, 2, <<1, 1>>), 124, 0, 13, <<1, 1>>),
     FragInput("between", "NDB",
               BuildResource(1, 1, 5, 2, ToBits(77, 10), <<1, 0, 0, 1, 1, 1, 1, 1, 1, 1, 1>>),
               268, 1, 29, <<1, 0, 0, 1, 1, 1, 1, 1, 1, 1, 1>>),
     FragInput("other", "NDB_SF",
               BuildResource(1, 3, 6, 1, ToBits(SsiB, 24), <<1, 1, 1, 0, 1>>),
               124, 3, 43, <<1, 1, 1, 0, 1>>)}

InitFrag ==
    /\ decoder = DecoderConstructed
    /\ mac \in MacInitStates
    /\ feed = [spec |-> "frag"]
    /\ obs = [n |-> 0, kind |-> "none", seq |-> <<>>, parts |-> <<>>, startEnc |-> 0,
              modeBefore |-> 0, out |-> <<>>]

\* the state after the burst: S is what serviceLowerMac gives
AfterFragBurst(S, in) ==
    LET part == IF mac.m_bRemoveFillBits THEN in.sdu ELSE in.rest
        opened == in.kind = "start"
        tracked == opened \/ obs.seq # <<>>
    IN  /\ mac' = S.m
        /\ obs' = [n |-> obs.n + 1,
                   kind |-> in.kind,
                   seq |-> IF opened THEN <<in.kind>>
                           ELSE IF tracked THEN Append(obs.seq, in.kind) ELSE <<>>,
                   parts |-> IF opened THEN <<part>>
                             ELSE IF tracked THEN Append(obs.parts, part) ELSE <<>>,
                   startEnc |-> IF opened THEN in.enc ELSE obs.startEnc,
                   modeBefore |-> mac.m_macAddress.encryptionMode,
                   out |-> SelectSeq(Flatten([i \in 1..Len(S.calls) |-> S.calls[i].out]),
                                     LAMBDA d : d.to = "LLC")]

\* One burst: incrementTn, then serviceLowerMac on the frame
FragBurst(in) ==
    /\ obs.n < MaxFragBursts
    /\ AfterFragBurst(ServiceLowerMac([mac EXCEPT !.m_tetraTime = IncrementTn(@)],
                                      in.burstType, in.dec), in)
    /\ UNCHANGED <<decoder, feed>>

NextFrag == \E in \in FragInputs : FragBurst(in)

SpecFrag == InitFrag /\ [][NextFrag]_vars

\* the PDUs since the last start are that start, MAC-FRAGs and at most a
\* MAC-END, the last one
FragmentedSequence ==
    /\ obs.seq # <<>>
    /\ \A i \in 2..Len(obs.seq) :
          obs.seq[i] = "frag" \/ (obs.seq[i] = "end" /\ i = Len(obs.seq))

\* the PDUs since the last start leave the SSI as it is, and the last one is
\* the first MAC-END
ReassemblyEnded ==
    /\ obs.seq # <<>>
    /\ obs.kind = "end"
    /\ \A i \in 2..Len(obs.seq) :
          obs.seq[i] \in {"frag", "between"} \/ (obs.seq[i] = "end" /\ i = Len(obs.seq))

C8_FragmentationEndToEnd ==
    FragmentedSequence =>
        IF obs.kind = "end"
        THEN Len(obs.out) = 1 /\ obs.out[1].sdu = Flatten(obs.parts)
        ELSE obs.out = <<>>

C8_Witness ==
    /\ FragmentedSequence
    /\ obs.seq = <<"start", "frag", "frag", "end">>
    /\ mac.m_bRemoveFillBits
    /\ Len(obs.out) = 1
    /\ obs.out[1].sdu = Flatten(obs.parts)
    /\ Len(obs.out[1].sdu) = Len(obs.parts[1]) + 3 + 3 + 2

\* the fragments appended since the last start: the TM-SDU part of the
\* start and those of the MAC-FRAGs
AppendedParts ==
    Flatten([i \in 1..Len(obs.seq) |->
                IF obs.seq[i] \in {"start", "frag"} THEN obs.parts[i] ELSE <<>>])

AppendedCount == Cardinality({i \in 1..Len(obs.seq) : obs.seq[i] \in {"start", "frag"}})

\* C36: a stopped defragmenter has an empty buffer and a fragment count of
\* 0; one that is not stopped holds the fragments appended since the last
\* start, in order, and their number.
C36_DefragState ==
    /\ mac.m_macDefrag.b_stopped =>
          /\ mac.m_macDefrag.m_sdu = <<>>
          /\ mac.m_macDefrag.m_fragmentsCount = 0
    /\ ~mac.m_macDefrag.b_stopped =>
          /\ mac.m_macDefrag.m_sdu = AppendedParts
          /\ mac.m_macDefrag.m_fragmentsCount = AppendedCount

\* a reassembly holds its start and two fragments, with a PDU for an event
\* label in between
C36_Witness ==
    /\ ~mac.m_macDefrag.b_stopped
    /\ obs.seq = <<"start", "frag", "between", "frag">>
    /\ mac.m_macDefrag.m_fragmentsCount = 3

====
